---- MODULE Spec2Model ----
(***************************************************************************)
(* Model of the jimo-go/framework HTTP router: the per-method route trie,  *)
(* Router scopes (prefix + middleware), registration (Router.add), the     *)
(* name index, dispatch (Router.ServeHTTP), middleware composition and the *)
(* panic-to-response translation.                                          *)
(*                                                                         *)
(* Go strings that the code inspects character by character (paths,        *)
(* patterns, segments, parameter names) are sequences of one-character     *)
(* strings, so "/u/{i}" is <<"/","u","/","{","i","}">> and "" is <<>>.     *)
(* Route names, handler and middleware identities and messages are only    *)
(* ever compared, and are plain TLA+ strings.                              *)
(***************************************************************************)
EXTENDS Integers, Sequences, FiniteSets, TLC

VARIABLES
    routers,    \* every Router value (scope): [prefix, mw]; routers[1] is NewRouter()
    trees,      \* routerState.trees: method -> id of the root routeNode
    nodes,      \* the heap of routeNode values, a node's id is its index
    names,      \* routerState.names: route name -> full pattern
    nregs,      \* number of Router.add calls made so far
    regPanic,   \* the panic the last Router.add call raised, "" when it returned
    pc,         \* position of the request being served by ServeHTTP
    req,        \* the request: [method, path]
    node,       \* ServeHTTP's n after the tree walk (Nil when the walk failed)
    ctx,        \* the Context built for the request: [made, params]
    out,        \* the composed handler: the middleware still to enter, then the handler
    depth,      \* number of middleware frames that are waiting for next to return
    resp,       \* the http.ResponseWriter of the request
    log,        \* shared ordered log of what the chain executed
    rec,        \* the value of the panic in flight, or of the last one recovered
    recovered,  \* how many times the deferred recover() caught a panic
    url,        \* the last Router.URL call: its arguments and what it returned
    mu,         \* routerState.mu: [readers, writer]
    thr,        \* the goroutines running ServeHTTP concurrently: their locals
    reg,        \* the Router.add call running concurrently: its locals
    ctxs,       \* the heap of Context values of the concurrent requests
    web,        \* the request running through the Sessions and CSRF middleware
    jar,        \* the session cookie the client holds
    issued,     \* number of CSRF tokens generated so far
    cmu,        \* Container.mu: [readers, writer]
    providers,  \* Container.providers: type -> provider
    bthr,       \* the goroutines calling Bind and Resolve: their locals
    vdir,       \* viewEngine.dir
    vcache,     \* viewEngine.cache: file name -> parsed template
    vmu,        \* viewEngine.mu: [readers, writer]
    vthr,       \* the goroutines calling Render: their locals
    vset        \* the goroutine calling SetDir: its locals

routerVars == <<routers, trees, nodes, names, nregs, regPanic>>
serveVars  == <<pc, req, node, ctx, out, depth, resp, log, rec, recovered>>
concVars   == <<mu, thr, reg, ctxs>>
webVars    == <<web, jar, issued>>
bindVars   == <<cmu, providers, bthr>>
viewVars   == <<vdir, vcache, vmu, vthr, vset>>
extVars    == <<url, concVars, webVars, bindVars, viewVars>>
vars       == <<routers, trees, nodes, names, nregs, regPanic,
                pc, req, node, ctx, out, depth, resp, log, rec, recovered, extVars>>

-----------------------------------------------------------------------------
(* Bounds of the model. *)

MaxRegs    == 2     \* Router.add calls in one behaviour
MaxRouters == 2     \* Router values (the root and the scopes Group creates)
MaxScopeMw == 2     \* middleware a scope can accumulate through Use
MaxThreads == 2     \* goroutines that run ServeHTTP concurrently
MaxRacing  == 1     \* goroutines that run ServeHTTP beside a running Router.add
MaxSessions == 2    \* CSRF tokens the session middleware generates
MaxLockRegs == 3    \* registrations beside requests and URL calls
MaxCallers == 3     \* goroutines that call Container.Bind and Container.Resolve
MaxRenders == 2     \* goroutines that call viewEngine.Render
MaxSetDirs == 1     \* calls of viewEngine.SetDir

-----------------------------------------------------------------------------
(* Nil values. *)

Nil        == 0          \* a nil *routeNode
NilHandler == "nil"      \* a nil HandlerFunc
NilMw      == "nil"      \* a nil Middleware
NilFn      == "nil"      \* a nil func(*Router)

EmptyMap   == <<>>       \* an empty (or nil) Go map

\* m[k] of a Go map[string]string: the zero value "" when k is absent.
MapGet(m, k) == IF k \in DOMAIN m THEN m[k] ELSE <<>>

\* m[k] = v of a Go map.
MapPut(m, k, v) == [x \in DOMAIN m \cup {k} |-> IF x = k THEN v ELSE m[x]]

-----------------------------------------------------------------------------
(* The strings package, as far as the router uses it. *)

HasPrefix(s, p) == Len(s) >= Len(p) /\ SubSeq(s, 1, Len(p)) = p

RECURSIVE TrimRight(_, _)
TrimRight(s, c) ==
    IF s # <<>> /\ s[Len(s)] = c THEN TrimRight(SubSeq(s, 1, Len(s) - 1), c) ELSE s

RECURSIVE TrimLeft(_, _)
TrimLeft(s, c) ==
    IF s # <<>> /\ s[1] = c THEN TrimLeft(SubSeq(s, 2, Len(s)), c) ELSE s

Trim(s, c) == TrimLeft(TrimRight(s, c), c)

ContainsAny(s, chars) == \E i \in 1..Len(s) : s[i] \in chars

-----------------------------------------------------------------------------
(* Path helpers of the router. *)

cleanPath(p) ==
    IF p = <<>> THEN <<"/">>
    ELSE LET q == IF ~HasPrefix(p, <<"/">>) THEN <<"/">> \o p ELSE p
         IN  IF Len(q) > 1 THEN TrimRight(q, "/") ELSE q

joinPath(prefix, path) ==
    LET p1 == IF path = <<>> THEN <<"/">> ELSE path
        p2 == IF ~HasPrefix(p1, <<"/">>) THEN <<"/">> \o p1 ELSE p1
    IN  IF prefix = <<>> \/ prefix = <<"/">> THEN cleanPath(p2)
        ELSE LET pre == IF ~HasPrefix(prefix, <<"/">>) THEN <<"/">> \o prefix ELSE prefix
             IN  cleanPath(TrimRight(pre, "/") \o p2)

\* segmentLoop that also appends the empty segments between two slashes.
RECURSIVE segmentLoopKeepEmpty(_, _, _, _)
segmentLoopKeepEmpty(path, i, start, segs) ==
    IF i > Len(path)
    THEN IF start <= Len(path) THEN Append(segs, SubSeq(path, start, Len(path))) ELSE segs
    ELSE IF path[i] = "/"
         THEN segmentLoopKeepEmpty(path, i + 1, i + 1,
                                   Append(segs, SubSeq(path, start, i - 1)))
         ELSE segmentLoopKeepEmpty(path, i + 1, start, segs)

\* The scanning loop of pathSegments: i is the loop index (1-based), start
\* the index where the current segment began, segs the segments so far.
RECURSIVE segmentLoop(_, _, _, _)
segmentLoop(path, i, start, segs) ==
    IF i > Len(path)
    THEN IF start <= Len(path) THEN Append(segs, SubSeq(path, start, Len(path))) ELSE segs
    ELSE IF path[i] = "/"
         THEN segmentLoop(path, i + 1, i + 1,
                          IF start < i THEN Append(segs, SubSeq(path, start, i - 1)) ELSE segs)
         ELSE segmentLoop(path, i + 1, start, segs)

pathSegments(path) ==
    IF path = <<"/">> THEN <<>>
    ELSE LET t == Trim(path, "/")
         IN  IF t = <<>> THEN <<>> ELSE segmentLoop(t, 1, 1, <<>>)

\* isParamSegment returns (name, ok).
isParamSegment(seg) ==
    IF Len(seg) < 3 THEN [name |-> <<>>, ok |-> FALSE]
    ELSE IF seg[1] # "{" \/ seg[Len(seg)] # "}" THEN [name |-> <<>>, ok |-> FALSE]
    ELSE LET name == SubSeq(seg, 2, Len(seg) - 1)
         IN  IF name = <<>> \/ ContainsAny(name, {"/", "{", "}"})
             THEN [name |-> <<>>, ok |-> FALSE]
             ELSE [name |-> name, ok |-> TRUE]

-----------------------------------------------------------------------------
(* Route options. *)

Named(name)        == [kind |-> "Named", name |-> name, mw |-> <<>>]
WithMiddleware(mw) == [kind |-> "WithMiddleware", name |-> "", mw |-> mw]
NilOption          == [kind |-> "nil", name |-> "", mw |-> <<>>]

\* The option loop of Router.add: every non-nil option is applied to ro in order.
RECURSIVE applyOptions(_, _, _)
applyOptions(opts, i, ro) ==
    IF i > Len(opts) THEN ro
    ELSE LET opt == opts[i]
             ro1 == IF opt.kind = "Named" THEN [ro EXCEPT !.name = opt.name]
                    ELSE IF opt.kind = "WithMiddleware"
                         THEN [ro EXCEPT !.middleware = ro.middleware \o opt.mw]
                    ELSE ro
         IN  applyOptions(opts, i + 1, ro1)

routeOptions(opts) == applyOptions(opts, 1, [name |-> "", middleware |-> <<>>])

-----------------------------------------------------------------------------
(* The route trie. *)

\* &routeNode{static: make(map[string]*routeNode), paramName: name}
newRouteNode(paramName) ==
    [static |-> EmptyMap, param |-> Nil, paramName |-> paramName,
     handler |-> NilHandler, mw |-> <<>>, name |-> ""]

\* paramConflict that accepts any name on an existing parameter edge.
paramConflictIgnored(h, n, name) == FALSE

\* The check on an existing parameter edge of node n in Router.add.
paramConflict(h, n, name) == h[h[n].param].paramName # name

\* The segment loop of Router.add from node n on, over the heap h.  It
\* returns the heap, the node reached and whether the loop panicked on a
\* conflicting parameter name; the nodes created before the panic stay.
RECURSIVE insertWalk(_, _, _, _)
insertWalk(h, n, segs, i) ==
    IF i > Len(segs) THEN [heap |-> h, n |-> n, conflict |-> FALSE]
    ELSE LET seg == segs[i]
             ps  == isParamSegment(seg)
         IN  IF ps.ok
             THEN IF h[n].param = Nil
                  THEN LET id == Len(h) + 1
                           h1 == Append([h EXCEPT ![n].param = id], newRouteNode(ps.name))
                       IN  insertWalk(h1, id, segs, i + 1)
                  ELSE IF paramConflict(h, n, ps.name)
                       THEN [heap |-> h, n |-> n, conflict |-> TRUE]
                       ELSE insertWalk(h, h[n].param, segs, i + 1)
             ELSE IF seg \in DOMAIN h[n].static
                  THEN insertWalk(h, h[n].static[seg], segs, i + 1)
                  ELSE LET id == Len(h) + 1
                           h1 == Append([h EXCEPT ![n].static = MapPut(h[n].static, seg, id)],
                                        newRouteNode(<<>>))
                       IN  insertWalk(h1, id, segs, i + 1)

-----------------------------------------------------------------------------
(* Registration: Router.Use, Router.Group, Router.add, Router.Get/Post. *)

\* No call of ServeHTTP is in progress.
Quiescent == pc = "idle"

\* Use that also appends mw to the chain of every route already registered.
UseRetroactive(r, mw) ==
    /\ Quiescent
    /\ Len(routers[r].mw) + Len(mw) <= MaxScopeMw
    /\ routers' = [routers EXCEPT ![r].mw = routers[r].mw \o mw]
    /\ nodes' = [n \in 1..Len(nodes) |->
                    IF nodes[n].handler # NilHandler
                    THEN [nodes[n] EXCEPT !.mw = nodes[n].mw \o mw]
                    ELSE nodes[n]]
    /\ UNCHANGED <<trees, names, nregs, regPanic>>
    /\ UNCHANGED <<serveVars, extVars>>

\* Router.Use: r.mw = append(r.mw, mw...)
Use(r, mw) ==
    /\ Quiescent
    /\ Len(routers[r].mw) + Len(mw) <= MaxScopeMw
    /\ routers' = [routers EXCEPT ![r].mw = routers[r].mw \o mw]
    /\ UNCHANGED <<trees, nodes, names, nregs, regPanic>>
    /\ UNCHANGED <<serveVars, extVars>>

\* The Router value Group builds for the child scope: it shares the state
\* and takes a copy of the parent's middleware list.
childRouter(r, prefix) ==
    [prefix |-> joinPath(routers[r].prefix, prefix), mw |-> routers[r].mw]

\* Router.Group: a nil fn returns at once; otherwise the child scope exists
\* from here on and fn registers on it.
Group(r, prefix, fn) ==
    /\ Quiescent
    /\ Len(routers) < MaxRouters
    /\ routers' = IF fn = NilFn THEN routers ELSE Append(routers, childRouter(r, prefix))
    /\ UNCHANGED <<trees, nodes, names, nregs, regPanic>>
    /\ UNCHANGED <<serveVars, extVars>>

\* flattenMw with the route's own middleware in front of the scope's.
flattenMwRouteFirst(r, ro) == ro.middleware \o routers[r].mw

\* The flattened chain Router.add stores on the terminal node.
flattenMw(r, ro) == routers[r].mw \o ro.middleware

\* The check of the name index in Router.add.
nameConflict(name, full) == MapGet(names, name) # <<>> /\ MapGet(names, name) # full

\* storeRoute that leaves a node alone once it carries a handler.
storeRouteOnce(h, n, handler, chain, name) ==
    IF h[n].handler # NilHandler THEN h
    ELSE [h EXCEPT ![n].handler = handler, ![n].mw = chain, ![n].name = name]

\* n.handler = handler; n.mw = ...; n.name = ro.name
storeRoute(h, n, handler, chain, name) ==
    [h EXCEPT ![n].handler = handler, ![n].mw = chain, ![n].name = name]

\* Router.add, from the nil-handler check to the name index.  The result is
\* the router state the call leaves behind and the panic it raised, if any:
\* assignments made before a panic are kept.
addResult(r, method, path, handler, opts) ==
    IF handler = NilHandler
    THEN [trees |-> trees, nodes |-> nodes, names |-> names,
          panic |-> "router: handler is nil"]
    ELSE LET ro      == routeOptions(opts)
             full    == joinPath(routers[r].prefix, path)
             segs    == pathSegments(full)
             hasRoot == method \in DOMAIN trees
             heap0   == IF hasRoot THEN nodes ELSE Append(nodes, newRouteNode(<<>>))
             root    == IF hasRoot THEN trees[method] ELSE Len(nodes) + 1
             trees1  == IF hasRoot THEN trees ELSE MapPut(trees, method, root)
             w       == insertWalk(heap0, root, segs, 1)
         IN  IF w.conflict
             THEN [trees |-> trees1, nodes |-> w.heap, names |-> names,
                   panic |-> "router: conflicting param name"]
             ELSE LET heap1 == storeRoute(w.heap, w.n, handler, flattenMw(r, ro), ro.name)
                  IN  IF ro.name # ""
                      THEN IF nameConflict(ro.name, full)
                           THEN [trees |-> trees1, nodes |-> heap1, names |-> names,
                                 panic |-> "router: duplicate route name"]
                           ELSE [trees |-> trees1, nodes |-> heap1,
                                 names |-> MapPut(names, ro.name, full), panic |-> ""]
                      ELSE [trees |-> trees1, nodes |-> heap1, names |-> names,
                            panic |-> ""]

add(r, method, path, handler, opts) ==
    /\ Quiescent
    /\ nregs < MaxRegs
    /\ LET res == addResult(r, method, path, handler, opts)
       IN  /\ trees' = res.trees
           /\ nodes' = res.nodes
           /\ names' = res.names
           /\ regPanic' = res.panic
    /\ nregs' = nregs + 1
    /\ UNCHANGED routers
    /\ UNCHANGED <<serveVars, extVars>>

Get(r, path, handler, opts)  == add(r, "GET", path, handler, opts)

Post(r, path, handler, opts) == add(r, "POST", path, handler, opts)

\* strings.ReplaceAll(s, old, new) for a non-empty old: the non-overlapping
\* occurrences of old, found from the left, are replaced.
RECURSIVE replaceFrom(_, _, _, _)
replaceFrom(s, old, new, i) ==
    IF i > Len(s) THEN <<>>
    ELSE IF i + Len(old) - 1 <= Len(s) /\ SubSeq(s, i, i + Len(old) - 1) = old
         THEN new \o replaceFrom(s, old, new, i + Len(old))
         ELSE <<s[i]>> \o replaceFrom(s, old, new, i + 1)

ReplaceAll(s, old, new) == replaceFrom(s, old, new, 1)

\* The loop of Router.URL over params; order is the order in which range
\* yields the keys, which Go leaves unspecified.
RECURSIVE urlLoop(_, _, _, _)
urlLoop(outStr, params, order, i) ==
    IF i > Len(order) THEN outStr
    ELSE urlLoop(ReplaceAll(outStr, <<"{">> \o order[i] \o <<"}">>, params[order[i]]),
                 params, order, i + 1)

\* The orders range can yield the keys of params in.
RangeOrders(params) ==
    {ord \in [1..Cardinality(DOMAIN params) -> DOMAIN params] :
        \A i, j \in DOMAIN ord : i # j => ord[i] # ord[j]}

\* Router.URL(name, params) when range yields the keys in the given order.
URL(name, params, order) ==
    LET pattern == MapGet(names, name)
    IN  IF pattern = <<>> THEN <<>>
        ELSE IF Cardinality(DOMAIN params) = 0 THEN pattern
        ELSE urlLoop(pattern, params, order, 1)

NoURLCall ==
    [called |-> FALSE, name |-> "", params |-> EmptyMap, result |-> <<>>, pc |-> "idle"]

\* A call of Router.URL on any scope: the scopes share the name index.
URLCall(name, params) ==
    /\ Quiescent
    /\ \E order \in RangeOrders(params) :
          url' = [called |-> TRUE, name |-> name, params |-> params,
                  result |-> URL(name, params, order), pc |-> "idle"]
    /\ UNCHANGED <<routerVars, serveVars, concVars, webVars, bindVars, viewVars>>

-----------------------------------------------------------------------------
(* The http.ResponseWriter of a request: the header map's Content-Type, the *)
(* status and content type committed by the first WriteHeader, the number   *)
(* of WriteHeader calls and the body chunks written.                        *)

\* A session cookie: absent, unreadable, or the sealed content of a Session.
NoCookie      == [present |-> FALSE, valid |-> FALSE, values |-> <<>>, csrf |-> 0]
GarbageCookie == [present |-> TRUE,  valid |-> FALSE, values |-> <<>>, csrf |-> 0]

\* header and setCookie are the Content-Type and Set-Cookie entries of
\* w.Header(); ctype and cookie are what was sent with the status line.
newResponse ==
    [status |-> 0, header |-> "", ctype |-> "", calls |-> 0, body |-> <<>>,
     setCookie |-> NoCookie, cookie |-> NoCookie]

\* w.Header().Set("Content-Type", ct)
headerSet(w, ct) == [w EXCEPT !.header = ct]

\* w.WriteHeader(status): the first call commits status and headers, a
\* later call changes nothing the client sees.
writeHeader(w, status) ==
    IF w.status = 0
    THEN [w EXCEPT !.status = status, !.ctype = w.header, !.cookie = w.setCookie,
                   !.calls = w.calls + 1]
    ELSE [w EXCEPT !.calls = w.calls + 1]

\* w.Write(chunk): commits 200 first when nothing was committed.
write(w, chunk) ==
    LET w1 == IF w.status = 0
              THEN [w EXCEPT !.status = 200, !.ctype = w.header, !.cookie = w.setCookie]
              ELSE w
    IN  [w1 EXCEPT !.body = Append(w1.body, chunk)]

textChunk(text) == [json |-> FALSE, message |-> text, hasFields |-> FALSE, fields |-> EmptyMap]

\* http.NotFound(w, req)
NotFound(w) ==
    write(writeHeader(headerSet(w, "text/plain; charset=utf-8"), 404),
          textChunk("404 page not found"))

\* Context.String(status, text)
String(w, status, text) ==
    write(writeHeader(headerSet(w, "text/plain; charset=utf-8"), status), textChunk(text))

-----------------------------------------------------------------------------
(* Errors and panic values. *)

NoErr         == [isNil |-> TRUE,  fieldErrorer |-> FALSE, fields |-> EmptyMap]
PlainErr      == [isNil |-> FALSE, fieldErrorer |-> FALSE, fields |-> EmptyMap]
ValidationErr == [isNil |-> FALSE, fieldErrorer |-> TRUE,  fields |-> ("email" :> "required")]

\* HTTPError{Status, Message, Err}
HTTPError(status, message, err) ==
    [type |-> "HTTPError", isNil |-> FALSE, Status |-> status, Message |-> message, Err |-> err]

\* &HTTPError{Status, Message, Err}
HTTPErrorPtr(status, message, err) ==
    [type |-> "*HTTPError", isNil |-> FALSE, Status |-> status, Message |-> message, Err |-> err]

\* (*HTTPError)(nil)
NilHTTPErrorPtr ==
    [type |-> "*HTTPError", isNil |-> TRUE, Status |-> 0, Message |-> "", Err |-> NoErr]

\* any other panic value, e.g. a string or a runtime error
OtherPanic(text) ==
    [type |-> "other", isNil |-> FALSE, Status |-> 0, Message |-> text, Err |-> NoErr]

NoPanic == [type |-> "none", isNil |-> TRUE, Status |-> 0, Message |-> "", Err |-> NoErr]

\* writeJSONError that never looks at the cause.
writeJSONErrorNoFields(w, status, message, err) ==
    write(writeHeader(headerSet(w, "application/json; charset=utf-8"), status),
          [json |-> TRUE, message |-> message, hasFields |-> FALSE, fields |-> EmptyMap])

\* writeJSONError(w, status, message, err)
writeJSONError(w, status, message, err) ==
    LET w1      == writeHeader(headerSet(w, "application/json; charset=utf-8"), status)
        payload == IF ~err.isNil /\ err.fieldErrorer
                   THEN [json |-> TRUE, message |-> message, hasFields |-> TRUE,
                         fields |-> err.fields]
                   ELSE [json |-> TRUE, message |-> message, hasFields |-> FALSE,
                         fields |-> EmptyMap]
    IN  write(w1, payload)

\* Context.JSON(status, data): the status is committed before the encoder
\* runs; a failing encoder panics with a 500 HTTPError.
JSON(w, status, encodes) ==
    LET w1 == writeHeader(headerSet(w, "application/json; charset=utf-8"), status)
    IN  IF encodes
        THEN [resp |-> write(w1, [json |-> TRUE, message |-> "data", hasFields |-> FALSE,
                                  fields |-> EmptyMap]),
              panic |-> NoPanic]
        ELSE [resp |-> w1, panic |-> HTTPError(500, "Failed to encode JSON", PlainErr)]

\* Context.View(name, data) with a view engine configured: 200 is committed
\* before the template is rendered; a failing render panics with a 500
\* HTTPError.
View(w, renders) ==
    LET w1 == writeHeader(headerSet(w, "text/html; charset=utf-8"), 200)
    IN  IF renders
        THEN [resp |-> write(w1, textChunk("<html>")), panic |-> NoPanic]
        ELSE [resp |-> w1, panic |-> HTTPError(500, "Failed to render view", PlainErr)]

-----------------------------------------------------------------------------
(* Dispatch: Router.ServeHTTP. *)

\* walkLoop with the parameter edge tried before the literal child.
RECURSIVE walkLoopParamFirst(_, _, _, _)
walkLoopParamFirst(n, segs, i, params) ==
    IF i > Len(segs) THEN [ok |-> TRUE, n |-> n, params |-> params]
    ELSE LET seg == segs[i]
         IN  IF nodes[n].param # Nil
             THEN walkLoopParamFirst(nodes[n].param, segs, i + 1,
                                     MapPut(params, nodes[nodes[n].param].paramName, seg))
             ELSE IF seg \in DOMAIN nodes[n].static
                  THEN walkLoopParamFirst(nodes[n].static[seg], segs, i + 1, params)
                  ELSE [ok |-> FALSE, n |-> Nil, params |-> params]

\* walkLoop that follows the parameter edge without storing the segment.
RECURSIVE walkLoopNoCapture(_, _, _, _)
walkLoopNoCapture(n, segs, i, params) ==
    IF i > Len(segs) THEN [ok |-> TRUE, n |-> n, params |-> params]
    ELSE LET seg == segs[i]
         IN  IF seg \in DOMAIN nodes[n].static
             THEN walkLoopNoCapture(nodes[n].static[seg], segs, i + 1, params)
             ELSE IF nodes[n].param = Nil
                  THEN [ok |-> FALSE, n |-> Nil, params |-> params]
                  ELSE walkLoopNoCapture(nodes[n].param, segs, i + 1, params)

\* walkLoop that returns to the parameter edge when the literal child it
\* took does not end on a registered route.
RECURSIVE walkLoopBacktrack(_, _, _, _)
walkLoopBacktrack(n, segs, i, params) ==
    IF i > Len(segs) THEN [ok |-> TRUE, n |-> n, params |-> params]
    ELSE LET seg  == segs[i]
             dead == [ok |-> FALSE, n |-> Nil, params |-> params]
             lit  == IF seg \in DOMAIN nodes[n].static
                     THEN walkLoopBacktrack(nodes[n].static[seg], segs, i + 1, params)
                     ELSE dead
             par  == IF nodes[n].param = Nil THEN dead
                     ELSE walkLoopBacktrack(nodes[n].param, segs, i + 1,
                                            MapPut(params, nodes[nodes[n].param].paramName, seg))
         IN  IF seg \in DOMAIN nodes[n].static
             THEN IF lit.ok /\ nodes[lit.n].handler # NilHandler THEN lit
                  ELSE IF par.ok THEN par ELSE lit
             ELSE par

\* The tree walk of ServeHTTP from node n over segs[i..]: the node reached
\* and the captured parameters, or ok = FALSE where it answers 404.
RECURSIVE walkLoop(_, _, _, _)
walkLoop(n, segs, i, params) ==
    IF i > Len(segs) THEN [ok |-> TRUE, n |-> n, params |-> params]
    ELSE LET seg == segs[i]
         IN  IF seg \in DOMAIN nodes[n].static
             THEN walkLoop(nodes[n].static[seg], segs, i + 1, params)
             ELSE IF nodes[n].param = Nil
                  THEN [ok |-> FALSE, n |-> Nil, params |-> params]
                  ELSE walkLoop(nodes[n].param, segs, i + 1,
                                MapPut(params, nodes[nodes[n].param].paramName, seg))

\* applyLoop that wraps each middleware directly around the handler, so the
\* first entry of the chain ends up innermost.
RECURSIVE applyLoopInnermost(_, _, _)
applyLoopInnermost(o, chain, i) ==
    IF i < 1 THEN o
    ELSE IF chain[i] = NilMw THEN applyLoopInnermost(o, chain, i - 1)
    ELSE applyLoopInnermost(SubSeq(o, 1, Len(o) - 1) \o <<chain[i], o[Len(o)]>>, chain, i - 1)

\* The loop of applyMiddleware, i running from len(chain) down to 1.  A
\* composed handler is the sequence of the middleware it enters, outermost
\* first, followed by the handler they wrap.
RECURSIVE applyLoop(_, _, _)
applyLoop(o, chain, i) ==
    IF i < 1 THEN o
    ELSE IF chain[i] = NilMw THEN applyLoop(o, chain, i - 1)
    ELSE applyLoop(<<chain[i]>> \o o, chain, i - 1)

applyMiddleware(h, chain) == applyLoop(<<h>>, chain, Len(chain))

\* values a middleware panics with
MwPanicValues == { HTTPError(401, "Unauthenticated", NoErr), OtherPanic("boom") }

\* a Middleware whose body panics when it is applied to the next handler
PanicsOnApply == "P"

\* applyMiddleware(h, chain) panics: its loop reaches such a middleware.
applyPanics(chain) == \E i \in 1..Len(chain) : chain[i] = PanicsOnApply

\* a nil *Session
NilSession == [Values |-> EmptyMap, CSRF |-> 0, dirty |-> FALSE]

NoContext == [made |-> FALSE, params |-> EmptyMap, session |-> NilSession, csrf |-> 0]

\* NewContext(w, req, views) followed by ctx.params = params
NewContext(params) ==
    [made |-> TRUE, params |-> params, session |-> NilSession, csrf |-> 0]

\* Context.Param(name)
Param(c, name) == MapGet(c.params, name)

\* lookup that builds the Context before it looks the route up.
lookupContextFirst(method, path) ==
    LET segs == pathSegments(cleanPath(path))
        root == IF method \in DOMAIN trees THEN trees[method] ELSE Nil
        miss == [pc |-> "done", node |-> Nil, ctx |-> NewContext(EmptyMap), out |-> <<>>,
                 resp |-> NotFound(newResponse)]
    IN  IF root = Nil THEN miss
        ELSE LET w == walkLoop(root, segs, 1, EmptyMap)
             IN  IF ~w.ok THEN miss
                 ELSE IF nodes[w.n].handler = NilHandler THEN [miss EXCEPT !.node = w.n]
                 ELSE [pc   |-> "call",
                       node |-> w.n,
                       ctx  |-> NewContext(w.params),
                       out  |-> IF Len(nodes[w.n].mw) > 0
                                THEN applyMiddleware(nodes[w.n].handler, nodes[w.n].mw)
                                ELSE <<nodes[w.n].handler>>,
                       resp |-> newResponse]

\* ServeHTTP from its first line to the point where it either has answered
\* 404 or is about to call h(ctx).
lookup(method, path) ==
    LET segs == pathSegments(cleanPath(path))
        root == IF method \in DOMAIN trees THEN trees[method] ELSE Nil
        miss == [pc |-> "done", node |-> Nil, ctx |-> NoContext, out |-> <<>>,
                 resp |-> NotFound(newResponse)]
    IN  IF root = Nil THEN miss
        ELSE LET w == walkLoop(root, segs, 1, EmptyMap)
             IN  IF ~w.ok THEN miss
                 ELSE IF nodes[w.n].handler = NilHandler THEN [miss EXCEPT !.node = w.n]
                 ELSE [pc   |-> "call",
                       node |-> w.n,
                       ctx  |-> NewContext(w.params),
                       out  |-> IF Len(nodes[w.n].mw) > 0
                                THEN applyMiddleware(nodes[w.n].handler, nodes[w.n].mw)
                                ELSE <<nodes[w.n].handler>>,
                       resp |-> newResponse]

ServeHTTP(method, path) ==
    /\ Quiescent
    /\ LET l == lookup(method, path)
       IN  IF l.pc = "call" /\ applyPanics(nodes[l.node].mw)
           THEN \* the panic of applyMiddleware leaves ServeHTTP before the
                \* Context is made and before recover is deferred
                /\ pc' = "escaped"
                /\ node' = l.node
                /\ ctx' = NoContext
                /\ out' = <<>>
                /\ resp' = newResponse
                /\ \E v \in MwPanicValues : rec' = v
           ELSE /\ pc' = l.pc
                /\ node' = l.node
                /\ ctx' = l.ctx
                /\ out' = l.out
                /\ resp' = l.resp
                /\ rec' = NoPanic
    /\ req' = [method |-> method, path |-> path]
    /\ depth' = 0
    /\ log' = <<>>
    /\ recovered' = 0
    /\ UNCHANGED <<routerVars, extVars>>

\* The composed handler enters its next middleware, which calls next(ctx).
MiddlewareNext ==
    /\ pc = "call"
    /\ depth + 1 < Len(out)
    /\ log' = Append(log, <<out[depth + 1], "before">>)
    /\ depth' = depth + 1
    /\ UNCHANGED <<pc, req, node, ctx, out, resp, rec, recovered>>
    /\ UNCHANGED <<routerVars, extVars>>

\* The next middleware returns without calling next(ctx).
MiddlewareAbort ==
    /\ pc = "call"
    /\ depth + 1 < Len(out)
    /\ log' = Append(log, <<out[depth + 1], "abort">>)
    /\ pc' = "ret"
    /\ UNCHANGED <<req, node, ctx, out, depth, resp, rec, recovered>>
    /\ UNCHANGED <<routerVars, extVars>>

\* The next middleware panics with v before calling next(ctx), as
\* RequireAuth and CSRF do.
MiddlewarePanic(v) ==
    /\ pc = "call"
    /\ depth + 1 < Len(out)
    /\ log' = Append(log, <<out[depth + 1], "panic">>)
    /\ rec' = v
    /\ pc' = "panic"
    /\ UNCHANGED <<req, node, ctx, out, depth, resp, recovered>>
    /\ UNCHANGED <<routerVars, extVars>>

\* The route's handler runs; it may write a response (Context.String) and
\* then returns.
HandlerReturn(writes) ==
    /\ pc = "call"
    /\ depth + 1 = Len(out)
    /\ log' = Append(log, <<out[depth + 1], "run">>)
    /\ resp' = IF writes THEN String(resp, 200, "ok") ELSE resp
    /\ pc' = "ret"
    /\ UNCHANGED <<req, node, ctx, out, depth, rec, recovered>>
    /\ UNCHANGED <<routerVars, extVars>>

\* The route's handler runs; it may write a response and then panics with v.
HandlerPanic(writes, v) ==
    /\ pc = "call"
    /\ depth + 1 = Len(out)
    /\ log' = Append(log, <<out[depth + 1], "run">>)
    /\ resp' = IF writes THEN String(resp, 200, "ok") ELSE resp
    /\ rec' = v
    /\ pc' = "panic"
    /\ UNCHANGED <<req, node, ctx, out, depth, recovered>>
    /\ UNCHANGED <<routerVars, extVars>>

\* The route's handler runs and calls Context.JSON or Context.View, whose
\* encoder or template fails.
HandlerWriterFails(writer) ==
    /\ pc = "call"
    /\ depth + 1 = Len(out)
    /\ log' = Append(log, <<out[depth + 1], "run">>)
    /\ LET r == IF writer = "JSON" THEN JSON(resp, 201, FALSE) ELSE View(resp, FALSE)
       IN  /\ resp' = r.resp
           /\ rec' = r.panic
    /\ pc' = "panic"
    /\ UNCHANGED <<req, node, ctx, out, depth, recovered>>
    /\ UNCHANGED <<routerVars, extVars>>

\* next(ctx) returns into the innermost waiting middleware, which finishes.
MiddlewareReturn ==
    /\ pc = "ret"
    /\ depth > 0
    /\ log' = Append(log, <<out[depth], "after">>)
    /\ depth' = depth - 1
    /\ UNCHANGED <<pc, req, node, ctx, out, resp, rec, recovered>>
    /\ UNCHANGED <<routerVars, extVars>>

\* h(ctx) returns and ServeHTTP returns.
Return ==
    /\ pc = "ret"
    /\ depth = 0
    /\ pc' = "done"
    /\ UNCHANGED <<req, node, ctx, out, depth, resp, log, rec, recovered>>
    /\ UNCHANGED <<routerVars, extVars>>

\* The body of ServeHTTP's deferred function for the recovered value v: the
\* response it leaves and whether the function itself panicked (v.Status of
\* a nil *HTTPError is a nil dereference).
recoverResult(w, v) ==
    IF v.type = "HTTPError"
    THEN [resp |-> writeJSONError(w, v.Status, v.Message, v.Err), panicked |-> FALSE]
    ELSE IF v.type = "*HTTPError"
    THEN IF v.isNil
         THEN [resp |-> w, panicked |-> TRUE]
         ELSE [resp |-> writeJSONError(w, v.Status, v.Message, v.Err), panicked |-> FALSE]
    ELSE [resp |-> writeJSONError(w, 500, "Internal Server Error", NoErr),
          panicked |-> FALSE]

\* The panic unwinds to ServeHTTP, whose deferred function recovers it.
Recover ==
    /\ pc = "panic"
    /\ LET r == recoverResult(resp, rec)
       IN  /\ resp' = r.resp
           /\ pc' = IF r.panicked THEN "escaped" ELSE "done"
    /\ recovered' = recovered + 1
    /\ UNCHANGED <<req, node, ctx, out, depth, log, rec>>
    /\ UNCHANGED <<routerVars, extVars>>

\* ServeHTTP is over (it returned, or its panic reached the caller); the
\* request, its Context and its locals are gone.
Finish ==
    /\ pc \in {"done", "escaped"}
    /\ pc' = "idle"
    /\ req' = [method |-> "", path |-> <<>>]
    /\ node' = Nil
    /\ ctx' = NoContext
    /\ out' = <<>>
    /\ depth' = 0
    /\ resp' = newResponse
    /\ log' = <<>>
    /\ rec' = NoPanic
    /\ recovered' = 0
    /\ UNCHANGED <<routerVars, extVars>>

-----------------------------------------------------------------------------
(* Concurrency: ServeHTTP on several goroutines and Router.add beside      *)
(* them, each split at its lock operations and at the iterations of its    *)
(* loop, the places where another goroutine can run in between.            *)

Threads == 1..MaxThreads

\* newSession()
newSession == [Values |-> EmptyMap, CSRF |-> 0, dirty |-> TRUE]

\* ensureCSRF(s), fresh being the token rand.Read produces
ensureCSRF(s, fresh) ==
    IF s.CSRF # 0 THEN s ELSE [s EXCEPT !.CSRF = fresh, !.dirty = TRUE]

\* SessionManager.encrypt(s): the sealed JSON of the session
encrypt(s) == [present |-> TRUE, valid |-> TRUE, values |-> s.Values, csrf |-> s.CSRF]

\* SessionManager.decrypt(value)
decrypt(c) ==
    IF c.valid
    THEN [ok |-> TRUE, s |-> [Values |-> c.values, CSRF |-> c.csrf, dirty |-> FALSE]]
    ELSE [ok |-> FALSE, s |-> newSession]

\* SessionManager.load(r)
load(r, fresh) ==
    IF ~r.cookie.present THEN ensureCSRF(newSession, fresh)
    ELSE LET d == decrypt(r.cookie)
         IN  IF ~d.ok THEN ensureCSRF(newSession, fresh) ELSE ensureCSRF(d.s, fresh)

idleThread ==
    [pc |-> "idle", method |-> "", path |-> <<>>, cookie |-> NoCookie, segs |-> <<>>,
     i |-> 0, n |-> Nil, params |-> EmptyMap, out |-> <<>>, ctx |-> 0,
     resp |-> newResponse]

\* owner is the goroutine whose handler made the call, 0 for a goroutine
\* that serves no request.
idleReg ==
    [pc |-> "idle", owner |-> 0, r |-> 0, method |-> "", full |-> <<>>, segs |-> <<>>,
     i |-> 0, n |-> Nil, handler |-> NilHandler, name |-> ""]

\* Router.add up to the point where it asks for the exclusive lock.
addBegin(owner, r, method, path, handler, name) ==
    /\ reg.pc = "idle"
    /\ owner # 0 => thr[owner].pc = "handler"
    /\ reg' = [pc |-> "want", owner |-> owner, r |-> r, method |-> method,
               full |-> joinPath(routers[r].prefix, path),
               segs |-> pathSegments(joinPath(routers[r].prefix, path)), i |-> 1,
               n |-> Nil, handler |-> handler, name |-> name]
    /\ UNCHANGED <<routerVars, serveVars, url, bindVars, viewVars, webVars, mu, thr, ctxs>>

\* r.state.mu.Lock()
addLock ==
    /\ reg.pc = "want"
    /\ mu.readers = {}
    /\ ~mu.writer
    /\ mu' = [mu EXCEPT !.writer = TRUE]
    /\ reg' = [reg EXCEPT !.pc = "root"]
    /\ UNCHANGED <<routerVars, serveVars, url, bindVars, viewVars, webVars, thr, ctxs>>

\* root := r.state.trees[method], created when missing
addRoot ==
    /\ reg.pc = "root"
    /\ LET hasRoot == reg.method \in DOMAIN trees
           root    == IF hasRoot THEN trees[reg.method] ELSE Len(nodes) + 1
       IN  /\ nodes' = IF hasRoot THEN nodes ELSE Append(nodes, newRouteNode(<<>>))
           /\ trees' = IF hasRoot THEN trees ELSE MapPut(trees, reg.method, root)
           /\ reg' = [reg EXCEPT !.n = root,
                                 !.pc = IF Len(reg.segs) = 0 THEN "handler" ELSE "loop"]
    /\ UNCHANGED <<routers, names, nregs, regPanic, serveVars, url, bindVars, viewVars, webVars, mu, thr, ctxs>>

\* one iteration of the segment loop of Router.add
addLoop ==
    /\ reg.pc = "loop"
    /\ LET w == insertWalk(nodes, reg.n, <<reg.segs[reg.i]>>, 1)
       IN  /\ nodes' = w.heap
           /\ regPanic' = IF w.conflict THEN "router: conflicting param name" ELSE regPanic
           /\ reg' = [reg EXCEPT !.n = w.n, !.i = reg.i + 1,
                                 !.pc = IF w.conflict THEN "unlock"
                                        ELSE IF reg.i + 1 > Len(reg.segs) THEN "handler"
                                        ELSE "loop"]
    /\ UNCHANGED <<routers, trees, names, nregs, serveVars, url, bindVars, viewVars, webVars, mu, thr, ctxs>>

\* n.handler = handler
addHandler ==
    /\ reg.pc = "handler"
    /\ nodes' = [nodes EXCEPT ![reg.n].handler = reg.handler]
    /\ reg' = [reg EXCEPT !.pc = "mw"]
    /\ UNCHANGED <<routers, trees, names, nregs, regPanic, serveVars, url, bindVars, viewVars, webVars, mu, thr, ctxs>>

\* n.mw = append(r.mw, ro.middleware...); n.name = ro.name, for a route
\* registered with the given middleware
addMw(mw) ==
    /\ reg.pc = "mw"
    /\ nodes' = [nodes EXCEPT ![reg.n].mw = routers[reg.r].mw \o mw,
                              ![reg.n].name = reg.name]
    /\ regPanic' = ""
    /\ reg' = [reg EXCEPT !.pc = IF reg.name # "" THEN "names" ELSE "unlock"]
    /\ UNCHANGED <<routers, trees, names, nregs, serveVars, url, bindVars, viewVars, webVars, mu, thr, ctxs>>

\* the check and the update of the name index for a named route
addNames ==
    /\ reg.pc = "names"
    /\ IF nameConflict(reg.name, reg.full)
       THEN /\ regPanic' = "router: duplicate route name"
            /\ UNCHANGED names
       ELSE /\ names' = MapPut(names, reg.name, reg.full)
            /\ UNCHANGED regPanic
    /\ reg' = [reg EXCEPT !.pc = "unlock"]
    /\ UNCHANGED <<routers, trees, nodes, nregs, serveVars, url, bindVars, viewVars, webVars, mu, thr, ctxs>>

\* addUnlock of a Router.add that unlocks on its normal return only.
addUnlockNotDeferred ==
    /\ reg.pc = "unlock"
    /\ mu' = IF regPanic = "" THEN [mu EXCEPT !.writer = FALSE] ELSE mu
    /\ nregs' = nregs + 1
    /\ reg' = idleReg
    /\ UNCHANGED <<routers, trees, nodes, names, regPanic, serveVars, url, bindVars, viewVars, webVars, thr, ctxs>>

\* the deferred r.state.mu.Unlock(); Router.add is over
addUnlock ==
    /\ reg.pc = "unlock"
    /\ mu' = [mu EXCEPT !.writer = FALSE]
    /\ nregs' = nregs + 1
    /\ reg' = idleReg
    /\ UNCHANGED <<routers, trees, nodes, names, regPanic, serveVars, url, bindVars, viewVars, webVars, thr, ctxs>>

\* Router.URL(name, nil) on a goroutine of its own, which the lock knows as
\* reader 0: up to the point where it asks for the shared lock
urlBegin(name) ==
    /\ url.pc = "idle"
    /\ ~url.called
    /\ url' = [NoURLCall EXCEPT !.pc = "rlock", !.name = name]
    /\ UNCHANGED <<routerVars, serveVars, bindVars, viewVars, webVars, concVars>>

\* r.state.mu.RLock() of Router.URL
urlRLock ==
    /\ url.pc = "rlock"
    /\ ~mu.writer
    /\ reg.pc # "want"
    /\ mu' = [mu EXCEPT !.readers = mu.readers \cup {0}]
    /\ url' = [url EXCEPT !.pc = "read"]
    /\ UNCHANGED <<routerVars, serveVars, bindVars, viewVars, webVars, thr, reg, ctxs>>

\* pattern := r.state.names[name]; r.state.mu.RUnlock(); the return
urlRead ==
    /\ url.pc = "read"
    /\ mu' = [mu EXCEPT !.readers = mu.readers \ {0}]
    /\ url' = [url EXCEPT !.pc = "idle", !.called = TRUE,
                          !.result = URL(url.name, EmptyMap, <<>>)]
    /\ UNCHANGED <<routerVars, serveVars, bindVars, viewVars, webVars, thr, reg, ctxs>>

\* ServeHTTP up to the point where it asks for the shared lock.
serveBegin(d, method, path, cookie) ==
    /\ thr[d].pc = "idle"
    /\ thr' = [thr EXCEPT ![d] = [idleThread EXCEPT !.pc = "rlock", !.method = method,
                                                   !.path = path, !.cookie = cookie,
                                                   !.segs = pathSegments(cleanPath(path))]]
    /\ UNCHANGED <<routerVars, serveVars, url, bindVars, viewVars, webVars, mu, reg, ctxs>>

\* r.state.mu.RLock(): a reader waits while a writer holds the lock or is
\* waiting for it.
serveRLock(d) ==
    /\ thr[d].pc = "rlock"
    /\ ~mu.writer
    /\ reg.pc # "want"
    /\ mu' = [mu EXCEPT !.readers = mu.readers \cup {d}]
    /\ thr' = [thr EXCEPT ![d].pc = "root"]
    /\ UNCHANGED <<routerVars, serveVars, url, bindVars, viewVars, webVars, reg, ctxs>>

\* The lock is kept after the root was fetched.
serveRootKeepLock(d) ==
    /\ thr[d].pc = "root"
    /\ UNCHANGED mu
    /\ LET root == IF thr[d].method \in DOMAIN trees THEN trees[thr[d].method] ELSE Nil
       IN  thr' = [thr EXCEPT ![d].n = root, ![d].i = 1,
                              ![d].pc = IF root = Nil THEN "done"
                                        ELSE IF Len(thr[d].segs) = 0 THEN "read" ELSE "walk",
                              ![d].resp = IF root = Nil THEN NotFound(thr[d].resp)
                                          ELSE thr[d].resp]
    /\ UNCHANGED <<routerVars, serveVars, url, bindVars, viewVars, webVars, reg, ctxs>>

\* root := r.state.trees[method]; r.state.mu.RUnlock(); the 404 when the
\* method has no tree
serveRoot(d) ==
    /\ thr[d].pc = "root"
    /\ mu' = [mu EXCEPT !.readers = mu.readers \ {d}]
    /\ LET root == IF thr[d].method \in DOMAIN trees THEN trees[thr[d].method] ELSE Nil
       IN  thr' = [thr EXCEPT ![d].n = root, ![d].i = 1,
                              ![d].pc = IF root = Nil THEN "done"
                                        ELSE IF Len(thr[d].segs) = 0 THEN "read" ELSE "walk",
                              ![d].resp = IF root = Nil THEN NotFound(thr[d].resp)
                                          ELSE thr[d].resp]
    /\ UNCHANGED <<routerVars, serveVars, url, bindVars, viewVars, webVars, reg, ctxs>>

\* one iteration of the tree walk of ServeHTTP
serveWalk(d) ==
    /\ thr[d].pc = "walk"
    /\ LET w == walkLoop(thr[d].n, <<thr[d].segs[thr[d].i]>>, 1, thr[d].params)
       IN  thr' = [thr EXCEPT ![d].n = w.n, ![d].i = thr[d].i + 1, ![d].params = w.params,
                              ![d].pc = IF ~w.ok THEN "done"
                                        ELSE IF thr[d].i + 1 > Len(thr[d].segs) THEN "read"
                                        ELSE "walk",
                              ![d].resp = IF ~w.ok THEN NotFound(thr[d].resp)
                                          ELSE thr[d].resp]
    /\ UNCHANGED <<routerVars, serveVars, url, bindVars, viewVars, webVars, mu, reg, ctxs>>

\* Router.add is about to store a new literal child in the map of node n.
mapWritePending(n) ==
    /\ reg.pc = "loop"
    /\ reg.n = n
    /\ ~isParamSegment(reg.segs[reg.i]).ok
    /\ reg.segs[reg.i] \notin DOMAIN nodes[n].static

\* The walk reads n.static while Router.add writes the same map: the Go
\* runtime may stop the process with "concurrent map read and map write".
serveWalkFatal(d) ==
    /\ thr[d].pc = "walk"
    /\ mapWritePending(thr[d].n)
    /\ thr' = [thr EXCEPT ![d].pc = "fatal"]
    /\ UNCHANGED <<routerVars, serveVars, url, bindVars, viewVars, webVars, mu, reg, ctxs>>

\* NewContext that hands every request the same Context value.
allocContextShared(heap, c) ==
    IF Len(heap) = 0 THEN [heap |-> <<c>>, id |-> 1]
    ELSE [heap |-> [heap EXCEPT ![1] = c], id |-> 1]

\* &Context{...}: a new value on the heap
allocContext(heap, c) == [heap |-> Append(heap, c), id |-> Len(heap) + 1]

\* h := n.handler with its 404, applyMiddleware, NewContext and
\* ctx.params = params
serveRead(d) ==
    /\ thr[d].pc = "read"
    /\ IF nodes[thr[d].n].handler = NilHandler
       THEN /\ thr' = [thr EXCEPT ![d].pc = "done", ![d].resp = NotFound(thr[d].resp)]
            /\ UNCHANGED ctxs
       ELSE LET a == allocContext(ctxs, NewContext(thr[d].params))
            IN  /\ ctxs' = a.heap
                /\ thr' = [thr EXCEPT ![d].pc = "chain", ![d].ctx = a.id,
                                      ![d].out = IF Len(nodes[thr[d].n].mw) > 0
                                                 THEN applyMiddleware(nodes[thr[d].n].handler,
                                                                      nodes[thr[d].n].mw)
                                                 ELSE <<nodes[thr[d].n].handler>>]
    /\ UNCHANGED <<routerVars, serveVars, url, bindVars, viewVars, webVars, mu, reg>>

\* The chain starts: Sessions loads the session of the request's cookie
\* into the Context and CSRF copies its token; the request is a GET.
serveSessions(d) ==
    /\ thr[d].pc = "chain"
    /\ ~thr[d].cookie.valid => issued < MaxSessions
    /\ LET s == load(thr[d], issued + 1)
       IN  /\ ctxs' = [ctxs EXCEPT ![thr[d].ctx].session = s, ![thr[d].ctx].csrf = s.CSRF]
           /\ issued' = IF s.CSRF = issued + 1 THEN issued + 1 ELSE issued
    /\ thr' = [thr EXCEPT ![d].pc = "handler"]
    /\ UNCHANGED <<routerVars, serveVars, url, bindVars, viewVars, web, jar, mu, reg>>

paramChunk(v, token) ==
    [json |-> FALSE, message |-> "param", hasFields |-> FALSE, fields |-> EmptyMap,
     text |-> v, token |-> token]

\* a handler that answers with ctx.Param("i") and ctx.CSRFToken()
echoHandler(w, c) ==
    write(writeHeader(headerSet(w, "text/plain; charset=utf-8"), 200),
          paramChunk(Param(c, <<"i">>), c.csrf))

\* h(ctx) runs to its end and ServeHTTP returns; a handler that is inside
\* Router.add cannot return before that call does.
serveHandler(d) ==
    /\ thr[d].pc = "handler"
    /\ reg.owner # d
    /\ thr' = [thr EXCEPT ![d].pc = "done",
                          ![d].resp = echoHandler(thr[d].resp, ctxs[thr[d].ctx])]
    /\ UNCHANGED <<routerVars, serveVars, url, bindVars, viewVars, webVars, mu, reg, ctxs>>

-----------------------------------------------------------------------------
(* The web middleware stack: Sessions, then CSRF, then the handler.  A     *)
(* CSRF token is a number, 0 for the empty string; the tokens the session  *)
(* middleware generates at random are 1, 2, ... in the order of their      *)
(* generation.  A Content-Type is the sequence of its parts.               *)

\* http.SetCookie(w, cookie)
SetCookie(w, c) == [w EXCEPT !.setCookie = c]

\* SessionManager.save(w, s)
save(w, s) == IF ~s.dirty THEN w ELSE SetCookie(w, encrypt(s))

\* Session.Put(key, value)
Put(s, key, value) == [s EXCEPT !.Values = MapPut(s.Values, key, value), !.dirty = TRUE]

\* Session.Get(key)
Get_(s, key) == MapGet(s.Values, key)

\* The token lookup of CSRF with the form value asked first.
csrfTokenFormFirst(r) == IF r.form # 0 THEN r.form ELSE r.header

\* token := Header.Get("X-CSRF-Token"), else FormValue("_token")
csrfToken(r) == IF r.header # 0 THEN r.header ELSE r.form

\* What the CSRF middleware does with the request: "next" or "panic".
CSRF(r, s) ==
    IF HasPrefix(r.path, <<"/", "a", "p", "i", "/">>)
       \/ HasPrefix(r.ctype, <<"application/json">>)
    THEN "next"
    ELSE IF r.method \in {"GET", "HEAD", "OPTIONS"} THEN "next"
    ELSE IF csrfToken(r) = 0 \/ csrfToken(r) # s.CSRF THEN "panic"
    ELSE "next"

idleWeb ==
    [pc |-> "idle",
     req |-> [method |-> "", path |-> <<>>, ctype |-> <<>>, header |-> 0, form |-> 0,
              cookie |-> NoCookie],
     session |-> newSession, csrf |-> 0, ran |-> FALSE, rec |-> NoPanic,
     resp |-> newResponse]

\* A request arrives at a route behind the web stack.
webRequest(r) ==
    /\ web.pc = "idle"
    /\ (~r.cookie.valid) => issued < MaxSessions
    /\ web' = [idleWeb EXCEPT !.pc = "sessions", !.req = r]
    /\ UNCHANGED <<routerVars, serveVars, url, bindVars, viewVars, concVars, jar, issued>>

\* Sessions: s := sm.load(ctx.Request); ctx.session = s
sessionsLoad ==
    /\ web.pc = "sessions"
    /\ LET s == load(web.req, issued + 1)
       IN  /\ web' = [web EXCEPT !.pc = "csrf", !.session = s]
           /\ issued' = IF s.CSRF = issued + 1 THEN issued + 1 ELSE issued
    /\ UNCHANGED <<routerVars, serveVars, url, bindVars, viewVars, concVars, jar>>

\* CSRF: ctx.csrf = ctx.session.CSRF, then next(ctx) or the 419 panic
csrfCheck ==
    /\ web.pc = "csrf"
    /\ web' = IF CSRF(web.req, web.session) = "next"
              THEN [web EXCEPT !.pc = "handler", !.csrf = web.session.CSRF]
              ELSE [web EXCEPT !.pc = "save", !.csrf = web.session.CSRF,
                               !.rec = HTTPError(419, "CSRF token mismatch", NoErr)]
    /\ UNCHANGED <<routerVars, serveVars, url, bindVars, viewVars, concVars, jar, issued>>

\* The handler runs: it may store a value in the session and it may write
\* its response.
webHandler(puts, writes) ==
    /\ web.pc = "handler"
    /\ web' = [web EXCEPT !.pc = "save", !.ran = TRUE,
                          !.session = IF puts THEN Put(web.session, "k", "v")
                                      ELSE web.session,
                          !.resp = IF writes THEN String(web.resp, 200, "ok")
                                   ELSE web.resp]
    /\ UNCHANGED <<routerVars, serveVars, url, bindVars, viewVars, concVars, jar, issued>>

\* Sessions: the deferred sm.save(ctx.ResponseWriter, s), run when next
\* has returned or panicked
sessionsSave ==
    /\ web.pc = "save"
    /\ web' = [web EXCEPT !.pc = IF web.rec = NoPanic THEN "return" ELSE "recover",
                          !.resp = save(web.resp, web.session)]
    /\ UNCHANGED <<routerVars, serveVars, url, bindVars, viewVars, concVars, jar, issued>>

\* the deferred recovery of ServeHTTP
webRecover ==
    /\ web.pc = "recover"
    /\ web' = [web EXCEPT !.pc = "return", !.resp = recoverResult(web.resp, web.rec).resp]
    /\ UNCHANGED <<routerVars, serveVars, url, bindVars, viewVars, concVars, jar, issued>>

\* ServeHTTP returns: the server sends 200 with the headers set so far if
\* nothing was sent, and the client keeps the cookie it was sent.
webReturn ==
    /\ web.pc = "return"
    /\ LET w == IF web.resp.status = 0 THEN writeHeader(web.resp, 200) ELSE web.resp
       IN  /\ web' = [web EXCEPT !.pc = "done", !.resp = w]
           /\ jar' = IF w.cookie.present THEN w.cookie ELSE jar
    /\ UNCHANGED <<routerVars, serveVars, url, bindVars, viewVars, concVars, issued>>

\* The exchange is over; the request, its Context and its session value
\* are gone.
webFinish ==
    /\ web.pc = "done"
    /\ web' = idleWeb
    /\ UNCHANGED <<routerVars, serveVars, url, bindVars, viewVars, concVars, jar, issued>>

-----------------------------------------------------------------------------
(* The service container: Container.Bind and Container.Resolve, each split *)
(* at its lock operations.                                                 *)

NilType     == "nil"     \* a nil reflect.Type
NilProvider == "nil"     \* a nil Provider

Callers == 1..MaxCallers

idleCaller == [pc |-> "idle", op |-> "", t |-> "", p |-> "", err |-> "", got |-> ""]

\* Bind(t, provider) up to c.mu.Lock()
bindBegin(g, t, provider) ==
    /\ bthr[g].pc = "idle"
    /\ bthr' = [bthr EXCEPT ![g] =
                  IF t = NilType
                  THEN [pc |-> "done", op |-> "Bind", t |-> t, p |-> provider,
                        err |-> "container: type is nil", got |-> ""]
                  ELSE IF provider = NilProvider
                  THEN [pc |-> "done", op |-> "Bind", t |-> t, p |-> provider,
                        err |-> "container: provider is nil", got |-> ""]
                  ELSE [pc |-> "lock", op |-> "Bind", t |-> t, p |-> provider,
                        err |-> "", got |-> ""]]
    /\ UNCHANGED <<routerVars, serveVars, url, concVars, webVars, viewVars, cmu, providers>>

\* c.mu.Lock()
bindLock(g) ==
    /\ bthr[g].pc = "lock"
    /\ cmu.readers = {}
    /\ cmu.writer = 0
    /\ cmu' = [cmu EXCEPT !.writer = g]
    /\ bthr' = [bthr EXCEPT ![g].pc = "locked"]
    /\ UNCHANGED <<routerVars, serveVars, url, concVars, webVars, viewVars, providers>>

\* bindStore that stores the provider whether or not the type is bound.
bindStoreOverwrite(g) ==
    /\ bthr[g].pc = "locked"
    /\ providers' = MapPut(providers, bthr[g].t, bthr[g].p)
    /\ bthr' = [bthr EXCEPT ![g].pc = "unlock"]
    /\ UNCHANGED <<routerVars, serveVars, url, concVars, webVars, viewVars, cmu>>

\* the exists check and c.providers[t] = provider
bindStore(g) ==
    /\ bthr[g].pc = "locked"
    /\ IF bthr[g].t \in DOMAIN providers
       THEN /\ bthr' = [bthr EXCEPT ![g].pc = "unlock",
                                    ![g].err = "container: provider already bound"]
            /\ UNCHANGED providers
       ELSE /\ providers' = MapPut(providers, bthr[g].t, bthr[g].p)
            /\ bthr' = [bthr EXCEPT ![g].pc = "unlock"]
    /\ UNCHANGED <<routerVars, serveVars, url, concVars, webVars, viewVars, cmu>>

\* the deferred c.mu.Unlock(); Bind returns
bindUnlock(g) ==
    /\ bthr[g].pc = "unlock"
    /\ cmu' = [cmu EXCEPT !.writer = 0]
    /\ bthr' = [bthr EXCEPT ![g].pc = "done"]
    /\ UNCHANGED <<routerVars, serveVars, url, concVars, webVars, viewVars, providers>>

\* Resolve(t) up to c.mu.RLock()
resolveBegin(g, t) ==
    /\ bthr[g].pc = "idle"
    /\ bthr' = [bthr EXCEPT ![g] =
                  IF t = NilType
                  THEN [pc |-> "done", op |-> "Resolve", t |-> t, p |-> "",
                        err |-> "container: type is nil", got |-> ""]
                  ELSE [pc |-> "rlock", op |-> "Resolve", t |-> t, p |-> "",
                        err |-> "", got |-> ""]]
    /\ UNCHANGED <<routerVars, serveVars, url, concVars, webVars, viewVars, cmu, providers>>

\* c.mu.RLock(); provider, ok := c.providers[t]; c.mu.RUnlock()
resolveRead(g) ==
    /\ bthr[g].pc = "rlock"
    /\ cmu.writer = 0
    /\ bthr' = [bthr EXCEPT ![g].pc = "call",
                            ![g].p = IF bthr[g].t \in DOMAIN providers
                                     THEN providers[bthr[g].t] ELSE NilProvider]
    /\ UNCHANGED <<routerVars, serveVars, url, concVars, webVars, viewVars, cmu, providers>>

\* the !ok error, or provider(c)
resolveCall(g) ==
    /\ bthr[g].pc = "call"
    /\ bthr' = IF bthr[g].p = NilProvider
               THEN [bthr EXCEPT ![g].pc = "done", ![g].err = "container: no provider bound"]
               ELSE [bthr EXCEPT ![g].pc = "done", ![g].got = bthr[g].p]
    /\ UNCHANGED <<routerVars, serveVars, url, concVars, webVars, viewVars, cmu, providers>>

-----------------------------------------------------------------------------
(* The view engine: Render and SetDir on several goroutines, split at the  *)
(* lock operations of viewEngine.mu.  A parsed template is the directory   *)
(* and the file it was parsed from.                                        *)

Renderers == 1..MaxRenders

\* the id under which the lock knows the goroutine that calls SetDir
Setter == MaxRenders + 10

NoTemplate == [dir |-> "", file |-> <<>>]

idleRender ==
    [pc |-> "idle", name |-> <<>>, dir |-> "", tpl |-> NoTemplate, parsed |-> NoTemplate,
     err |-> ""]

idleSetDir == [pc |-> "idle", dir |-> "", calls |-> 0]

\* strings.TrimSpace
TrimSpace(s) == Trim(s, " ")

\* strings.Contains(s, sub)
Contains(s, sub) ==
    \E i \in 1..(Len(s) - Len(sub) + 1) : SubSeq(s, i, i + Len(sub) - 1) = sub

\* filepath.Ext(name) # "": the last element of the path has a dot
HasExt(name) ==
    \E i \in 1..Len(name) :
        /\ name[i] = "."
        /\ \A j \in i..Len(name) : name[j] # "/"

\* viewEngine.template up to the point where it asks for the shared lock:
\* the checks of the name and the default extension
templateBegin(g, name) ==
    /\ vthr[g].pc = "idle"
    /\ LET n1 == TrimSpace(name)
       IN  IF n1 = <<>>
           THEN vthr' = [vthr EXCEPT ![g].pc = "done",
                                     ![g].err = "view: template name is empty"]
           ELSE IF Contains(n1, <<".", ".">>)
           THEN vthr' = [vthr EXCEPT ![g].pc = "done",
                                     ![g].err = "view: invalid template name"]
           ELSE vthr' = [vthr EXCEPT ![g].pc = "rlock",
                                     ![g].name = IF HasExt(n1) THEN n1
                                                 ELSE n1 \o <<".", "h", "t", "m", "l">>]
    /\ UNCHANGED <<routerVars, serveVars, url, concVars, webVars, bindVars, vdir, vcache, vmu, vset>>

\* a goroutine waits for the exclusive lock of the view engine
ViewWriterWaits ==
    \/ vset.pc = "want"
    \/ \E g \in Renderers : vthr[g].pc = "lock"

\* v.mu.RLock()
templateRLock(g) ==
    /\ vthr[g].pc = "rlock"
    /\ vmu.writer = 0
    /\ ~ViewWriterWaits
    /\ vmu' = [vmu EXCEPT !.readers = vmu.readers \cup {g}]
    /\ vthr' = [vthr EXCEPT ![g].pc = "read"]
    /\ UNCHANGED <<routerVars, serveVars, url, concVars, webVars, bindVars, vdir, vcache, vset>>

\* tpl := v.cache[name]; dir := v.dir; v.mu.RUnlock(); the return of a
\* cached template
templateRead(g) ==
    /\ vthr[g].pc = "read"
    /\ vmu' = [vmu EXCEPT !.readers = vmu.readers \ {g}]
    /\ LET tpl == IF vthr[g].name \in DOMAIN vcache THEN vcache[vthr[g].name] ELSE NoTemplate
       IN  vthr' = [vthr EXCEPT ![g].tpl = tpl, ![g].dir = vdir,
                                ![g].pc = IF tpl # NoTemplate THEN "done" ELSE "parse"]
    /\ UNCHANGED <<routerVars, serveVars, url, concVars, webVars, bindVars, vdir, vcache, vset>>

\* template.ParseFiles(filepath.Join(dir, name)), which fails when the file
\* cannot be read or parsed
templateParse(g, ok) ==
    /\ vthr[g].pc = "parse"
    /\ vthr' = IF ok
               THEN [vthr EXCEPT ![g].parsed = [dir |-> vthr[g].dir, file |-> vthr[g].name],
                                 ![g].pc = "lock"]
               ELSE [vthr EXCEPT ![g].err = "parse", ![g].pc = "done"]
    /\ UNCHANGED <<routerVars, serveVars, url, concVars, webVars, bindVars, vdir, vcache, vmu, vset>>

\* v.mu.Lock() of viewEngine.template
templateLock(g) ==
    /\ vthr[g].pc = "lock"
    /\ vmu.writer = 0
    /\ vmu.readers = {}
    /\ vmu' = [vmu EXCEPT !.writer = g]
    /\ vthr' = [vthr EXCEPT ![g].pc = "store"]
    /\ UNCHANGED <<routerVars, serveVars, url, concVars, webVars, bindVars, vdir, vcache, vset>>

\* the second look into the cache, v.cache[name] = parsed, the return and
\* the deferred v.mu.Unlock()
templateStore(g) ==
    /\ vthr[g].pc = "store"
    /\ IF vthr[g].name \in DOMAIN vcache
       THEN /\ vthr' = [vthr EXCEPT ![g].tpl = vcache[vthr[g].name], ![g].pc = "done"]
            /\ UNCHANGED vcache
       ELSE /\ vcache' = MapPut(vcache, vthr[g].name, vthr[g].parsed)
            /\ vthr' = [vthr EXCEPT ![g].tpl = vthr[g].parsed, ![g].pc = "done"]
    /\ vmu' = [vmu EXCEPT !.writer = 0]
    /\ UNCHANGED <<routerVars, serveVars, url, concVars, webVars, bindVars, vdir, vset>>

\* viewEngine.SetDir(dir) up to the point where it asks for the lock
setDirBegin(dir) ==
    /\ vset.pc = "idle"
    /\ vset.calls < MaxSetDirs
    /\ vset' = [vset EXCEPT !.pc = "want", !.dir = dir]
    /\ UNCHANGED <<routerVars, serveVars, url, concVars, webVars, bindVars, vdir, vcache, vmu, vthr>>

\* v.mu.Lock() of SetDir
setDirLock ==
    /\ vset.pc = "want"
    /\ vmu.writer = 0
    /\ vmu.readers = {}
    /\ vmu' = [vmu EXCEPT !.writer = Setter]
    /\ vset' = [vset EXCEPT !.pc = "store"]
    /\ UNCHANGED <<routerVars, serveVars, url, concVars, webVars, bindVars, vdir, vcache, vthr>>

\* v.dir = dir; v.cache = make(...); the deferred v.mu.Unlock(); the return
setDirStore ==
    /\ vset.pc = "store"
    /\ vdir' = vset.dir
    /\ vcache' = EmptyMap
    /\ vmu' = [vmu EXCEPT !.writer = 0]
    /\ vset' = [vset EXCEPT !.pc = "idle", !.calls = vset.calls + 1]
    /\ UNCHANGED <<routerVars, serveVars, url, concVars, webVars, bindVars, vthr>>


\* NewRouter()
NewRouter == [prefix |-> <<>>, mw |-> <<>>]

Init ==
    /\ routers = <<NewRouter>>
    /\ trees = EmptyMap
    /\ nodes = <<>>
    /\ names = EmptyMap
    /\ nregs = 0
    /\ regPanic = ""
    /\ pc = "idle"
    /\ req = [method |-> "", path |-> <<>>]
    /\ node = Nil
    /\ ctx = NoContext
    /\ out = <<>>
    /\ depth = 0
    /\ resp = newResponse
    /\ log = <<>>
    /\ rec = NoPanic
    /\ recovered = 0
    /\ url = NoURLCall
    /\ mu = [readers |-> {}, writer |-> FALSE]
    /\ thr = [d \in Threads |-> idleThread]
    /\ reg = idleReg
    /\ ctxs = <<>>
    /\ web = idleWeb
    /\ jar = NoCookie
    /\ issued = 0
    /\ cmu = [readers |-> {}, writer |-> 0]
    /\ providers = EmptyMap
    /\ bthr = [g \in Callers |-> idleCaller]
    /\ vdir = "views"
    /\ vcache = EmptyMap
    /\ vmu = [readers |-> {}, writer |-> 0]
    /\ vthr = [g \in Renderers |-> idleRender]
    /\ vset = idleSetDir

-----------------------------------------------------------------------------
(* Inputs. *)

Methods  == {"GET", "POST"}

Handlers == {"H1", "H2"}

\* registration patterns of the serving specification
RoutePaths == { <<"/", "u">>,
                <<"/", "u", "/", "v">>,
                <<"/", "u", "/", "{", "i", "}">>,
                <<"/", "{", "i", "}", "/", "w">> }

\* option lists of the serving specification
RouteOpts == { <<>>, <<WithMiddleware(<<"A", NilMw, "B">>)>> }

\* request paths
RequestPaths == { <<"/">>,
                  <<"/", "u">>,
                  <<"/", "u", "/", "v">>,
                  <<"/", "u", "/", "w">>,
                  <<"/", "w", "/", "w">> }

\* values a handler panics with
PanicValues == { HTTPError(422, "Validation failed", ValidationErr),
                 HTTPError(500, "Failed to encode JSON", PlainErr),
                 HTTPErrorPtr(419, "CSRF token mismatch", NoErr),
                 NilHTTPErrorPtr,
                 OtherPanic("boom"),
                 OtherPanic("runtime error") }

\* registration patterns and option lists of the registration specification
RegPaths == { <<"/", "{", "i", "}">>,
              <<"/", "{", "j", "}">>,
              <<"/", "/">> }

RegOpts == { <<>>, <<NilOption, Named("n")>> }

\* scope prefixes
GroupPrefixes == { <<"/", "u">> }

\* middleware lists given to Use, and the registration patterns and option
\* lists of the scope specification
ScopeMws == { <<"A">> }

ScopePaths == { <<"/", "{", "i", "}">> }

ScopeOpts == { <<>>, <<WithMiddleware(<<"B">>)>> }

-----------------------------------------------------------------------------
(* Specifications. *)

Register ==
    \E path \in RoutePaths, handler \in Handlers \cup {NilHandler}, opts \in RouteOpts :
        Get(1, path, handler, opts)

Serve ==
    \E method \in Methods, path \in RequestPaths : ServeHTTP(method, path)

Run ==
    \/ MiddlewareNext
    \/ MiddlewareAbort
    \/ \E v \in MwPanicValues : MiddlewarePanic(v)
    \/ \E writes \in BOOLEAN : HandlerReturn(writes)
    \/ \E writes \in BOOLEAN, v \in PanicValues : HandlerPanic(writes, v)
    \/ \E writer \in {"JSON", "View"} : HandlerWriterFails(writer)
    \/ MiddlewareReturn
    \/ Return
    \/ Recover
    \/ Finish

\* Routes are registered on the root router and requests are served.
Next == Register \/ Serve \/ Run

Spec == Init /\ [][Next]_vars

\* Routes whose chain may hold a middleware that panics when applied.
ApplyPaths == { <<"/", "u", "/", "v">>,
                <<"/", "{", "i", "}">>,
                <<"/", "{", "i", "}", "/", "w">> }

ApplyOpts == { <<>>,
               <<WithMiddleware(<<"A">>)>>,
               <<WithMiddleware(<<"A", PanicsOnApply>>)>>,
               <<WithMiddleware(<<NilMw, PanicsOnApply, "B">>)>> }

ApplyRequests == { <<"/", "u">>, <<"/", "w">>, <<"/", "u", "/", "w">>, <<"/", "u", "/", "v">> }

RegisterApply ==
    \E path \in ApplyPaths, handler \in Handlers, opts \in ApplyOpts :
        Get(1, path, handler, opts)

ServeApply ==
    \E path \in ApplyRequests : ServeHTTP("GET", path)

NextApply == RegisterApply \/ ServeApply \/ Run

SpecApply == Init /\ [][NextApply]_vars

\* The ways a path is written with slash noise: a trailing slash, one of its
\* slashes doubled, its leading slash dropped, or several of these at once.
Noise(c) ==
    {c \o <<"/">>, Tail(c), <<"/">> \o c \o <<"/", "/">>}
    \cup {SubSeq(c, 1, k) \o <<"/">> \o SubSeq(c, k + 1, Len(c)) :
              k \in {j \in 1..Len(c) : c[j] = "/"}}
    \cup {Tail(SubSeq(c, 1, k) \o <<"/">> \o SubSeq(c, k + 1, Len(c))) \o <<"/">> :
              k \in {j \in 2..Len(c) : c[j] = "/"}}

\* canonical patterns, scope prefixes and request paths written with noise
NoisePatterns == { <<"/">>, <<"/", "u">>, <<"/", "{", "i", "}", "/", "w">> }

NoisePrefixes == { <<"u", "/">>, <<"/", "/", "u">> }

NoiseRequests == { <<"/">>, <<"/", "u">>, <<"/", "u", "/", "x", "/", "w">> }

NoiseOpts == { <<>>, <<Named("n")>> }

Written(paths) == paths \cup UNION {Noise(c) : c \in paths}

RegisterNoisy ==
    \E r \in 1..Len(routers), v \in Written(NoisePatterns), opts \in NoiseOpts :
        Get(r, v, "H1", opts)

GroupNoisy ==
    \E v \in NoisePrefixes : Group(1, v, "fn")

ServeNoisy ==
    \E v \in Written(NoiseRequests) : ServeHTTP("GET", v)

RunPlain ==
    \/ \E writes \in BOOLEAN : HandlerReturn(writes)
    \/ Return
    \/ Finish

\* Patterns, prefixes and request paths are written with and without slash
\* noise; the routes have no middleware and their handlers return.
NextNoise == RegisterNoisy \/ GroupNoisy \/ ServeNoisy \/ RunPlain

SpecNoise == Init /\ [][NextNoise]_vars

\* The root scope uses A, the scopes grouped under it use B, and routes
\* bring C and D in two WithMiddleware options.
ChainOpts == { <<>>, <<WithMiddleware(<<"C">>), NilOption, WithMiddleware(<<"D">>)>> }

ChainPath == <<"/", "w">>

ChainRequests == { <<"/", "w">>, <<"/", "u", "/", "w">> }

UseChain ==
    \/ Use(1, <<"A">>)
    \/ \E r \in 2..Len(routers) : Use(r, <<"B">>)

GroupChain == Group(1, <<"/", "u">>, "fn")

RegisterChain ==
    \E r \in 1..Len(routers), opts \in ChainOpts : Get(r, ChainPath, "H1", opts)

ServeChain ==
    \E path \in ChainRequests : ServeHTTP("GET", path)

RunPasses ==
    \/ MiddlewareNext
    \/ HandlerReturn(TRUE)
    \/ MiddlewareReturn
    \/ Return
    \/ Finish

\* Scopes take middleware before and after routes are registered on them,
\* and requests run the stored chains to the end.
NextChain == UseChain \/ GroupChain \/ RegisterChain \/ ServeChain \/ RunPasses

SpecChain == Init /\ [][NextChain]_vars

RegisterGet ==
    \E r \in 1..Len(routers), path \in RegPaths, handler \in {"H1", NilHandler},
       opts \in RegOpts :
        Get(r, path, handler, opts)

RegisterPost ==
    \E r \in 1..Len(routers), path \in RegPaths, handler \in {"H1", NilHandler},
       opts \in RegOpts :
        Post(r, path, handler, opts)

GroupScope ==
    \E r \in 1..Len(routers), prefix \in GroupPrefixes, fn \in {"fn", NilFn} :
        Group(r, prefix, fn)

\* Named and unnamed routes are registered with both methods on the root
\* router and on the scopes created from it; no request is served.
NextReg == RegisterGet \/ RegisterPost \/ GroupScope

SpecReg == Init /\ [][NextReg]_vars

UseScope ==
    \E r \in 1..Len(routers), mw \in ScopeMws : Use(r, mw)

ScopeRegister ==
    \E r \in 1..Len(routers), path \in ScopePaths, opts \in ScopeOpts :
        Get(r, path, "H1", opts)

\* Scopes are created, given middleware and registered on; no request is served.
NextScope == UseScope \/ GroupScope \/ ScopeRegister

SpecScope == Init /\ [][NextScope]_vars

\* patterns, route names and parameter maps of the reverse-URL specification
URLPaths == { <<"/", "u">>, <<"/", "{", "a", "}", "/", "{", "b", "}">> }

URLNames == { "n", "m" }

URLParams == { EmptyMap,
               (<<"a">> :> <<"7">>),
               (<<"c">> :> <<"9">>),
               (<<"a">> :> <<"7">>) @@ (<<"b">> :> <<"8">>),
               (<<"a">> :> <<"{", "b", "}">>) @@ (<<"b">> :> <<"x">>) }

RegisterNamed ==
    \E r \in 1..Len(routers), path \in URLPaths :
        Get(r, path, "H1", <<Named("n")>>)

CallURL ==
    \E name \in URLNames, params \in URLParams : URLCall(name, params)

\* Named routes are registered on the root router and its scopes, and URLs
\* are generated from the name index.
NextURL == RegisterNamed \/ GroupScope \/ CallURL

SpecURL == Init /\ [][NextURL]_vars

\* patterns and parameter maps of the round trip through URL and ServeHTTP
RoundPaths == { <<"/", "u">>,
                <<"/", "{", "i", "}">>,
                <<"/", "{", "a", "}", "/", "{", "b", "}">> }

RoundOpts == { <<>>, <<Named("n")>>, <<Named("m")>> }

RoundParams == { (<<"i">> :> <<"w">>),
                 (<<"i">> :> <<"u">>),
                 (<<"a">> :> <<"7">>) @@ (<<"b">> :> <<"8">>),
                 (<<"a">> :> <<"{", "b", "}">>) @@ (<<"b">> :> <<"x">>) }

RegisterRound ==
    \E path \in RoundPaths, opts \in RoundOpts : Get(1, path, "H1", opts)

CallRound ==
    \E name \in URLNames, params \in RoundParams : URLCall(name, params)

\* a GET request to the string the last URL call returned
ServeRound ==
    /\ url.called
    /\ url.result # <<>>
    /\ ServeHTTP("GET", url.result)

\* Routes are registered with and without a name, URLs are generated and
\* requested; the handlers return.
NextRound == RegisterRound \/ CallRound \/ ServeRound \/ RunPlain

SpecRound == Init /\ [][NextRound]_vars

\* patterns, chains and request paths of the concurrent specifications
ConcPaths == { <<"/", "u">>, <<"/", "{", "i", "}">> }

ConcMws == { <<>>, <<"A">> }

\* the cookie of a session established earlier, with CSRF token t
SessionCookie(t) == encrypt([Values |-> EmptyMap, CSRF |-> t, dirty |-> FALSE])

ConcRequests == { [path |-> <<"/", "u">>, cookie |-> NoCookie],
                  [path |-> <<"/", "w">>, cookie |-> SessionCookie(101)],
                  [path |-> <<"/", "x">>, cookie |-> SessionCookie(102)] }

RacingRequests == { [path |-> <<"/", "u">>, cookie |-> SessionCookie(101)],
                    [path |-> <<"/", "w">>, cookie |-> SessionCookie(101)] }

Racing == 1..MaxRacing

RegisterConc ==
    /\ nregs < MaxRegs
    /\ \E owner \in {0} \cup Racing, path \in ConcPaths :
          addBegin(owner, 1, "GET", path, "H1", "")

RegisterStep ==
    \/ addLock
    \/ addRoot
    \/ addLoop
    \/ addHandler
    \/ \E mw \in ConcMws : addMw(mw)
    \/ addUnlock

ServeLookup ==
    \E d \in Racing :
        \/ serveRLock(d)
        \/ serveRoot(d)

ServeStep ==
    \E d \in Racing :
        \/ \E q \in RacingRequests : serveBegin(d, "GET", q.path, q.cookie)
        \/ serveWalk(d)
        \/ serveWalkFatal(d)
        \/ serveRead(d)
        \/ serveSessions(d)
        \/ serveHandler(d)

\* Requests are served on several goroutines while routes are registered,
\* by other goroutines and by the handlers themselves.
NextConc == RegisterConc \/ RegisterStep \/ ServeLookup \/ ServeStep

SpecConc == Init /\ [][NextConc]_vars

\* The scheduler lets a goroutine that can take a step take it; only a
\* handler may block for ever.
SpecConcLive == SpecConc /\ WF_vars(RegisterStep) /\ WF_vars(ServeLookup)

\* patterns of registrations that all carry the route name n, so that the
\* ones after the first can fail on the parameter name or on the route name
LockPaths == { <<"/">>, <<"/", "{", "i", "}">>, <<"/", "{", "j", "}">> }

RegisterLock ==
    /\ nregs < MaxLockRegs
    /\ \E path \in LockPaths : addBegin(0, 1, "GET", path, "H1", "n")

RegisterStepNamed ==
    \/ addLock
    \/ addRoot
    \/ addLoop
    \/ addHandler
    \/ addMw(<<>>)
    \/ addNames
    \/ addUnlock

\* the one goroutine that serves a request beside them
LockServer == CHOOSE d \in Threads : \A e \in Threads : d <= e

ServeLockLookup ==
    \/ serveRLock(LockServer)
    \/ serveRoot(LockServer)

ServeLock ==
    \E d \in {LockServer} :
        \/ \E q \in RacingRequests : serveBegin(d, "GET", q.path, q.cookie)
        \/ serveWalk(d)
        \/ serveRead(d)
        \/ serveSessions(d)
        \/ serveHandler(d)

URLStep ==
    \/ urlBegin("n")
    \/ urlRLock
    \/ urlRead

\* Registrations that panic on a parameter name or on a route name run
\* beside requests and URL calls.
NextLock == RegisterLock \/ RegisterStepNamed \/ ServeLockLookup \/ ServeLock \/ URLStep

SpecLock == Init /\ [][NextLock]_vars

SpecLockLive ==
    SpecLock /\ WF_vars(RegisterStepNamed) /\ WF_vars(ServeLockLookup) /\ WF_vars(URLStep)

\* template names given to Render and directories given to SetDir
ViewNames == { <<"t">>, <<" ", "t", ".", "h", "t", "m", "l">>, <<>>, <<".", ".", "/", "t">> }

ViewDirs == { "d1", "d2" }

RenderCall ==
    \E g \in Renderers :
        \/ \E name \in ViewNames : templateBegin(g, name)
        \/ templateRLock(g)
        \/ templateRead(g)
        \/ \E ok \in BOOLEAN : templateParse(g, ok)
        \/ templateLock(g)
        \/ templateStore(g)

SetDirCall ==
    \/ \E dir \in ViewDirs : setDirBegin(dir)
    \/ setDirLock
    \/ setDirStore

\* Goroutines render templates while the views directory is changed.
NextView == RenderCall \/ SetDirCall

SpecView == Init /\ [][NextView]_vars

RegisterPar ==
    /\ \A d \in Threads : thr[d].pc = "idle"
    /\ \E path \in ConcPaths, opts \in {<<>>, <<WithMiddleware(<<"A">>)>>} :
          Get(1, path, "H1", opts)

ServePar ==
    \E d \in Threads :
        \/ \E q \in ConcRequests : serveBegin(d, "GET", q.path, q.cookie)
        \/ serveRLock(d)
        \/ serveRoot(d)
        \/ serveWalk(d)
        \/ serveRead(d)
        \/ serveSessions(d)
        \/ serveHandler(d)

\* Routes are registered first, then requests are served on several
\* goroutines with no registration beside them.
NextPar == RegisterPar \/ ServePar

SpecPar == Init /\ [][NextPar]_vars

\* requests of the web specification: the client sends the cookie it
\* holds, none, or one the server cannot read
WebPaths == { <<"/", "f">>, <<"/", "a", "p", "i">>, <<"/", "a", "p", "i", "/", "x">> }

WebTypes == { <<>>, <<"application/json", "; charset=utf-8">>,
              <<"application/x-www-form-urlencoded">> }

WebRequests ==
    [method : {"GET", "POST"}, path : WebPaths, ctype : WebTypes,
     header : 0..MaxSessions, form : 0..MaxSessions,
     cookie : {NoCookie, GarbageCookie, jar}]

WebRequest == \E r \in WebRequests : webRequest(r)

WebStep ==
    \/ sessionsLoad
    \/ csrfCheck
    \/ \E puts \in BOOLEAN, writes \in BOOLEAN : webHandler(puts, writes)
    \/ sessionsSave
    \/ webRecover
    \/ webReturn
    \/ webFinish

\* One client sends requests, one after the other, to a route behind the
\* Sessions and CSRF middleware.
NextWeb == WebRequest \/ WebStep

SpecWeb == Init /\ [][NextWeb]_vars

\* types and providers of the container specification
BindTypes == { "T", NilType }

BindProviders == { "P1", "P2", NilProvider }

BindCall ==
    \E g \in Callers :
        \/ \E t \in BindTypes, provider \in BindProviders : bindBegin(g, t, provider)
        \/ bindLock(g)
        \/ bindStore(g)
        \/ bindUnlock(g)

ResolveCall ==
    \E g \in Callers :
        \/ \E t \in BindTypes : resolveBegin(g, t)
        \/ resolveRead(g)
        \/ resolveCall(g)

\* Every goroutine makes one call of Bind or Resolve on the same container.
NextBind == BindCall \/ ResolveCall

SpecBind == Init /\ [][NextBind]_vars

-----------------------------------------------------------------------------
(* Vocabulary of the properties: the shape of the trie, read off the heap. *)

IsPrefix(s, t) == Len(s) <= Len(t) /\ SubSeq(t, 1, Len(s)) = s

NodeIds == 1..Len(nodes)

\* n is the child of m through a literal edge / through the parameter edge.
StaticChild(m, n) == \E k \in DOMAIN nodes[m].static : nodes[m].static[k] = n
ParamChild(m, n)  == nodes[m].param = n

HasParent(n) == \E m \in NodeIds : StaticChild(m, n) \/ ParamChild(m, n)
ParentOf(n)  == CHOOSE m \in NodeIds : StaticChild(m, n) \/ ParamChild(m, n)

\* The nodes from the root of n's tree down to n.
RECURSIVE Chain(_)
Chain(n) == IF HasParent(n) THEN Append(Chain(ParentOf(n)), n) ELSE <<n>>

\* The request being served: its segments and the root of its method.
ReqSegs == pathSegments(cleanPath(req.path))
ReqRoot == IF req.method \in DOMAIN trees THEN trees[req.method] ELSE Nil

\* Node t is what segs leads to from root when, at every level, the literal
\* child is taken if there is one and the parameter child otherwise.
Leads(root, segs, t) ==
    LET ch == Chain(t)
    IN  /\ Len(ch) = Len(segs) + 1
        /\ ch[1] = root
        /\ \A i \in 1..Len(segs) :
              ch[i + 1] = IF segs[i] \in DOMAIN nodes[ch[i]].static
                          THEN nodes[ch[i]].static[segs[i]]
                          ELSE nodes[ch[i]].param

\* The request was matched and handed to the chain of node t.
DispatchedTo(t) ==
    /\ node = t
    /\ ctx.made
    /\ out # <<>>
    /\ out[Len(out)] = nodes[t].handler

\* The request was answered 404 by the router itself.
Answered404 ==
    /\ pc = "done"
    /\ resp = NotFound(newResponse)

\* Every middleware entered so far called next and nothing panicked.
ChainPasses ==
    /\ rec = NoPanic
    /\ \A i \in 1..Len(log) : log[i][2] \notin {"abort", "panic"}

Serving == pc # "idle"

\* A registered route ends on n or below it.
HasRoute(n) ==
    \E t \in NodeIds :
        /\ nodes[t].handler # NilHandler
        /\ \E i \in 1..Len(Chain(t)) : Chain(t)[i] = n

-----------------------------------------------------------------------------
(* C1: where a literal segment P and a parameter segment {x} are children  *)
(* of the same trie node and each leads to a registered route, a request   *)
(* whose segment at that position equals P is dispatched to the route      *)
(* through P, never to the route through {x}, and nothing is captured      *)
(* under x for that position.                                              *)
C1_StaticBeatsParam ==
    Serving =>
      LET rs   == ReqSegs
          root == ReqRoot
      IN  \A a \in NodeIds : \A P \in DOMAIN nodes[a].static :
            LET s == nodes[a].static[P]
                x == nodes[a].param
                k == Len(Chain(a))
            IN  ( /\ x # Nil
                  /\ Len(rs) >= k
                  /\ rs[k] = P
                  /\ Leads(root, SubSeq(rs, 1, k - 1), a)
                  /\ HasRoute(s)
                  /\ HasRoute(x) )
                => /\ \A t \in NodeIds :
                         (nodes[t].handler # NilHandler /\ Leads(root, rs, t))
                            => (DispatchedTo(t) /\ Chain(t)[k + 1] = s)
                   /\ (ctx.made \/ log # <<>>)
                         => /\ node # Nil
                            /\ Len(Chain(node)) = Len(rs) + 1
                            /\ Chain(node)[k + 1] = s
                            /\ Chain(node)[k + 1] # x
                            /\ \A nm \in DOMAIN ctx.params :
                                  \E i \in 1..Len(rs) :
                                     /\ i # k
                                     /\ Chain(node)[i + 1] = nodes[Chain(node)[i]].param
                                     /\ nodes[Chain(node)[i + 1]].paramName = nm

\* A request for the literal sibling of a registered parameter route was served.
C1_Witness ==
    /\ pc = "done"
    /\ node # Nil
    /\ HasParent(node)
    /\ StaticChild(ParentOf(node), node)
    /\ nodes[ParentOf(node)].param # Nil
    /\ nodes[nodes[ParentOf(node)].param].handler # NilHandler
    /\ <<nodes[node].handler, "run">> \in {log[i] : i \in 1..Len(log)}
    /\ ctx.params = EmptyMap

NoTree == ReqRoot = Nil

DeadEnd ==
    LET rs   == ReqSegs
        root == ReqRoot
    IN  /\ root # Nil
        /\ \E t \in NodeIds :
              /\ nodes[t].param = Nil
              /\ LET k == Len(Chain(t)) - 1
                 IN  /\ k < Len(rs)
                     /\ rs[k + 1] \notin DOMAIN nodes[t].static
                     /\ Leads(root, SubSeq(rs, 1, k), t)

NoHandlerAtEnd ==
    LET rs   == ReqSegs
        root == ReqRoot
    IN  /\ root # Nil
        /\ \E t \in NodeIds : nodes[t].handler = NilHandler /\ Leads(root, rs, t)

C6_UnmatchedIs404 ==
    (Serving /\ (NoTree \/ DeadEnd \/ NoHandlerAtEnd)) =>
        /\ ~ctx.made
        /\ out = <<>>
        /\ log = <<>>
        /\ rec = NoPanic
        /\ recovered = 0
        /\ Answered404

\* A walk that ran into a segment without any child was answered 404.
C6_Witness ==
    /\ Serving
    /\ DeadEnd
    /\ resp.status = 404
    /\ ~ctx.made


(* C3: any panic raised while the middleware chain or the handler of a     *)
(* matched request executes, whatever its value (an HTTPError, an          *)
(* *HTTPError pointer or anything else), is recovered inside ServeHTTP     *)
(* exactly once: ServeHTTP returns normally and the panic never reaches    *)
(* the caller.                                                             *)
C3_PanicNeverEscapes ==
    /\ pc # "escaped"
    /\ recovered <= 1
    /\ (pc = "done" /\ rec # NoPanic) => recovered = 1

(* C4: when a handler or middleware panics with an HTTPError of status s,  *)
(* message m and cause c and nothing was written to the response before,   *)
(* the response has status s, content type application/json;               *)
(* charset=utf-8 and a JSON body with message m that has a fields entry,   *)
(* equal to c's field-error map, exactly when c exposes one.               *)
C4_TypedFailureResponse ==
    [][ ( /\ pc = "panic"
          /\ pc' # "panic"
          /\ rec.type \in {"HTTPError", "*HTTPError"}
          /\ ~rec.isNil
          /\ resp = newResponse )
        => /\ pc' = "done"
           /\ resp'.status = rec.Status
           /\ resp'.ctype = "application/json; charset=utf-8"
           /\ Len(resp'.body) = 1
           /\ resp'.body[1].json
           /\ resp'.body[1].message = rec.Message
           /\ resp'.body[1].hasFields <=> (~rec.Err.isNil /\ rec.Err.fieldErrorer)
           /\ resp'.body[1].hasFields => resp'.body[1].fields = rec.Err.fields
      ]_vars

\* A 422 with the field errors {email: required} reached the client.
C4_Witness ==
    /\ pc = "done"
    /\ rec = HTTPError(422, "Validation failed", ValidationErr)
    /\ resp.status = 422
    /\ resp.ctype = "application/json; charset=utf-8"
    /\ Len(resp.body) = 1
    /\ resp.body[1].hasFields
    /\ resp.body[1].fields = ("email" :> "required")

(* C5: when a handler or middleware panics with a value that is not an     *)
(* HTTPError, the response is a 500 with the fixed message "Internal       *)
(* Server Error" and no fields entry, the same for every such value.       *)
C5_UntypedFailureIsFixed500 ==
    (pc = "done" /\ rec.type = "other") =>
        /\ resp.status = 500
        /\ resp.ctype = "application/json; charset=utf-8"
        /\ resp.body = << [json |-> TRUE, message |-> "Internal Server Error",
                           hasFields |-> FALSE, fields |-> EmptyMap] >>

(* C7: for a matched route whose stored chain has the non-nil entries      *)
(* m1..mn in order (nil entries are skipped) and handler H, where every    *)
(* middleware calls next and nothing panics, one dispatch executes         *)
(* m1-before, ..., mn-before, H, mn-after, ..., m1-after in exactly that   *)
(* order, each exactly once.                                               *)
IsMiddleware(m) == m # NilMw

OnionOrder(chain, h) ==
    LET nn == SelectSeq(chain, IsMiddleware)
        n  == Len(nn)
    IN  [i \in 1..(2 * n + 1) |->
            IF i <= n THEN <<nn[i], "before">>
            ELSE IF i = n + 1 THEN <<h, "run">>
            ELSE <<nn[2 * n + 2 - i], "after">>]

C7_OnionOrder ==
    (ctx.made /\ ChainPasses) =>
        /\ IsPrefix(log, OnionOrder(nodes[node].mw, nodes[node].handler))
        /\ pc = "done" => log = OnionOrder(nodes[node].mw, nodes[node].handler)

\* A chain with two middleware and a nil entry between them ran to the end.
C7_Witness ==
    /\ pc = "done"
    /\ ctx.made
    /\ nodes[node].mw = <<"A", NilMw, "B">>
    /\ log = << <<"A", "before">>, <<"B", "before">>, <<nodes[node].handler, "run">>,
                <<"B", "after">>, <<"A", "after">> >>


C9_NameBoundForever ==
    [][ /\ \A nm \in DOMAIN names : nm \in DOMAIN names' /\ names'[nm] = names[nm]
        /\ \A r \in 1..Len(routers), method \in Methods, path \in RegPaths, opts \in RegOpts :
              LET nm   == routeOptions(opts).name
                  full == joinPath(routers[r].prefix, path)
              IN  ( /\ nregs' # nregs
                    /\ nm \in DOMAIN names
                    /\ regPanic' # "router: conflicting param name"
                    /\ add(r, method, path, "H1", opts) )
                  => IF names[nm] = full
                     THEN regPanic' = ""
                     ELSE regPanic' = "router: duplicate route name" /\ names' = names
      ]_vars

(* C10: registering a route whose parameter segment at some trie position  *)
(* carries a capture name different from the one an earlier route          *)
(* established at that position panics with a conflict; hence the          *)
(* parameter edge of a node and its capture name never change once         *)
(* created.                                                                *)

\* The node the pattern segments segs[i..] lead to from node n, Nil when an
\* edge is missing: a literal segment follows the literal edge, a parameter
\* segment the parameter edge whatever its name.
RECURSIVE PatternEnd(_, _, _)
PatternEnd(n, segs, i) ==
    IF n = Nil \/ i > Len(segs) THEN n
    ELSE IF isParamSegment(segs[i]).ok
         THEN PatternEnd(nodes[n].param, segs, i + 1)
         ELSE IF segs[i] \in DOMAIN nodes[n].static
              THEN PatternEnd(nodes[n].static[segs[i]], segs, i + 1)
              ELSE Nil

\* The pattern has a parameter segment whose position already carries a
\* parameter edge with another capture name.
ParamNameClash(method, segs) ==
    /\ method \in DOMAIN trees
    /\ \E k \in 1..Len(segs) :
          /\ isParamSegment(segs[k]).ok
          /\ LET t == PatternEnd(trees[method], SubSeq(segs, 1, k - 1), 1)
             IN  /\ t # Nil
                 /\ nodes[t].param # Nil
                 /\ nodes[nodes[t].param].paramName # isParamSegment(segs[k]).name

C10_ParamNameFixed ==
    [][ /\ \A n \in NodeIds :
              /\ nodes'[n].paramName = nodes[n].paramName
              /\ nodes[n].param # Nil => nodes'[n].param = nodes[n].param
        /\ nregs' # nregs =>
              \A r \in 1..Len(routers), path \in RegPaths :
                 LET segs == pathSegments(joinPath(routers[r].prefix, path))
                 IN  \A method \in Methods :
                        ParamNameClash(method, segs) =>
                           \A opts \in RegOpts :
                              add(r, method, path, "H1", opts)
                                 => /\ regPanic' = "router: conflicting param name"
                                    /\ names' = names
      ]_vars

\* A registration was refused for its parameter name; the edge kept its name.
C10_Witness ==
    /\ regPanic = "router: conflicting param name"
    /\ \E n \in NodeIds :
          /\ nodes[n].param # Nil
          /\ nodes[nodes[n].param].paramName \in {<<"i">>, <<"j">>}
          /\ nodes[nodes[n].param].handler # NilHandler


(* C11: URL(name, params) returns the full pattern bound to name, group    *)
(* prefix included, with each {key} token of the pattern replaced by       *)
(* params[key] for every key of params; the pattern unchanged when params  *)
(* is empty; the empty string when name was never bound.                   *)

\* The token {k} stands at position i of s.
TokenAt(s, k, i) ==
    /\ i + Len(k) + 1 <= Len(s)
    /\ SubSeq(s, i, i + Len(k) + 1) = <<"{">> \o k \o <<"}">>

\* s with every token {k}, k a key of params, replaced by params[k].
RECURSIVE Substituted(_, _, _)
Substituted(s, params, i) ==
    IF i > Len(s) THEN <<>>
    ELSE IF \E k \in DOMAIN params : TokenAt(s, k, i)
         THEN LET k == CHOOSE k \in DOMAIN params : TokenAt(s, k, i)
              IN  params[k] \o Substituted(s, params, i + Len(k) + 2)
         ELSE <<s[i]>> \o Substituted(s, params, i + 1)

C11_URLSubstitutes ==
    [][ url' # url =>
          url'.result = IF url'.name \in DOMAIN names
                        THEN Substituted(names[url'.name], url'.params, 1)
                        ELSE <<>>
      ]_vars

(* C12: for every request that ends in a recovered failure, whatever was   *)
(* done to the response before the failure (Context.View or Context.JSON   *)
(* failing after their WriteHeader included), WriteHeader is called        *)
(* exactly once for the request and the status committed to the client is  *)
(* the failure's status (the HTTPError's Status, 500 for an untyped        *)
(* failure) with content type application/json; charset=utf-8.             *)
FailureStatus(v) == IF v.type \in {"HTTPError", "*HTTPError"} THEN v.Status ELSE 500

C12_StatusWrittenOnce ==
    (pc = "done" /\ rec # NoPanic /\ recovered = 1) =>
        /\ resp.calls = 1
        /\ resp.status = FailureStatus(rec)
        /\ resp.ctype = "application/json; charset=utf-8"

(* C13: each dispatch holds the shared lock for its whole lookup, from     *)
(* fetching the root through the tree walk to the read of the matched      *)
(* node's handler and middleware, and each registration holds the          *)
(* exclusive lock for its whole insert; so no dispatch reads a trie node   *)
(* while a registration is mutating the tree.                              *)
Inserting == reg.pc \in {"root", "loop", "handler", "mw"}

C13_NoReadDuringInsert ==
    /\ Inserting => mu.writer
    /\ \A d \in Threads :
          /\ thr[d].pc \in {"walk", "read"} => ~Inserting
          /\ thr[d].pc # "fatal"

(* C14: while the chain and the handler of a matched route execute, the    *)
(* dispatching goroutine holds no router lock, and a registration that     *)
(* asks for the exclusive lock, from another goroutine or from the handler *)
(* itself, gets it and completes even if no handler ever returns.          *)
C14_HandlerHoldsNoLock ==
    /\ [](\A d \in Threads : thr[d].pc \in {"chain", "handler"} => d \notin mu.readers)
    /\ (reg.pc = "want") ~> (reg.pc = "idle")

\* A handler registered a route while it was running: the insert is done
\* and the handler has not returned.
C14_Witness ==
    \E d \in Threads :
        /\ reg.pc = "unlock"
        /\ reg.owner = d
        /\ thr[d].pc = "handler"
        /\ regPanic = ""
        /\ nodes[reg.n].handler = "H1"

(* C16: behind Sessions and CSRF, a request with an unsafe method whose    *)
(* path is not under /api/ and whose Content-Type does not start with      *)
(* application/json reaches the handler only if it supplies a non-empty    *)
(* token (the X-CSRF-Token header, else the _token form value) equal to    *)
(* the CSRF token of its session; otherwise the handler does not run and   *)
(* the request ends with a 419 response.                                   *)
Protected(r) ==
    /\ r.method \notin {"GET", "HEAD", "OPTIONS"}
    /\ ~IsPrefix(<<"/", "a", "p", "i", "/">>, r.path)
    /\ ~(Len(r.ctype) > 0 /\ r.ctype[1] = "application/json")

SuppliedToken(r) == IF r.header # 0 THEN r.header ELSE r.form

TokenMatches == SuppliedToken(web.req) # 0 /\ SuppliedToken(web.req) = web.session.CSRF

C16_CSRFProtects ==
    (web.pc \in {"handler", "save", "recover", "return", "done"} /\ Protected(web.req)) =>
        /\ (web.pc = "handler" \/ web.ran) => TokenMatches
        /\ ~TokenMatches =>
              /\ ~web.ran
              /\ web.rec = HTTPError(419, "CSRF token mismatch", NoErr)
              /\ web.pc = "done" => web.resp.status = 419

\* A POST that carried the session's token in the form but another token
\* in the header was refused with a 419; the handler did not run.
C16_Witness ==
    /\ web.pc = "done"
    /\ Protected(web.req)
    /\ web.req.cookie.valid
    /\ web.req.form = web.session.CSRF
    /\ web.req.header # 0
    /\ web.req.header # web.session.CSRF
    /\ ~web.ran
    /\ web.resp.status = 419

(* C17: with Sessions installed, whenever the session is dirty at the end  *)
(* of a request, the session cookie was added to the response headers      *)
(* before the header was committed, so it reaches the client: a value a    *)
(* handler stored with Put before writing its response is readable with    *)
(* Get on the client's next request.                                       *)
C17_DirtySessionReachesClient ==
    (web.pc = "done" /\ web.session.dirty) =>
        /\ web.resp.cookie = encrypt(web.session)
        /\ jar = encrypt(web.session)
        /\ \A key \in DOMAIN web.session.Values :
              Get_(load([web.req EXCEPT !.cookie = jar], 0), key) = Get_(web.session, key)

(* C18: Bind registers a provider only for an unbound type: a Bind for a   *)
(* bound type returns an error and leaves the earlier provider in place,   *)
(* and under any interleaving of concurrent Bind calls for one type        *)
(* exactly one succeeds and every later Resolve of the type calls the      *)
(* provider of the successful Bind.                                        *)
BindReturned(g) == bthr[g].op = "Bind" /\ bthr[g].pc = "done"

BindSucceeded(g) == BindReturned(g) /\ bthr[g].err = ""

C18_BindOnce ==
    /\ \A g, h \in Callers :
          (BindSucceeded(g) /\ BindSucceeded(h) /\ bthr[g].t = bthr[h].t) => g = h
    /\ \A g \in Callers :
          /\ BindSucceeded(g) =>
                (bthr[g].t \in DOMAIN providers /\ providers[bthr[g].t] = bthr[g].p)
          /\ (BindReturned(g) /\ bthr[g].err = "container: provider already bound") =>
                \E h \in Callers \ {g} :
                    /\ bthr[h].op = "Bind"
                    /\ bthr[h].t = bthr[g].t
                    /\ bthr[h].pc \in {"unlock", "done"}
                    /\ bthr[h].err = ""
                    /\ providers[bthr[g].t] = bthr[h].p
          /\ (BindReturned(g) /\ bthr[g].t # NilType /\ bthr[g].p # NilProvider) =>
                \E h \in Callers : BindSucceeded(h) /\ bthr[h].t = bthr[g].t
          /\ (bthr[g].op = "Resolve" /\ bthr[g].pc = "done" /\ bthr[g].err = "") =>
                /\ bthr[g].got = providers[bthr[g].t]
                /\ \E h \in Callers :
                      /\ bthr[h].op = "Bind"
                      /\ bthr[h].t = bthr[g].t
                      /\ bthr[h].p = bthr[g].got
                      /\ bthr[h].pc \in {"unlock", "done"}
                      /\ bthr[h].err = ""
    /\ \A g, h \in Callers :
          (BindSucceeded(h) /\ bthr[g].op = "Resolve" /\ bthr[g].t = bthr[h].t
           /\ bthr[g].pc = "rlock")
             => providers[bthr[g].t] = bthr[h].p

\* Two goroutines bound the same type concurrently: one won, the other got
\* the error, and a third resolved the type to the winner's provider.
C18_Witness ==
    \E g, h, k \in Callers :
        /\ BindSucceeded(g)
        /\ BindReturned(h) /\ bthr[h].err = "container: provider already bound"
        /\ bthr[h].p # bthr[g].p
        /\ bthr[k].op = "Resolve" /\ bthr[k].pc = "done" /\ bthr[k].got = bthr[g].p

(* C15: with no registration in progress, concurrent dispatches each      *)
(* produce the response a sequential dispatch of the same request          *)
(* produces; each request has its own fresh Context and parameter map and  *)
(* never sees the parameters, session or CSRF token of another request.    *)

\* What ServeHTTP answers to the request of goroutine d when it runs alone;
\* token is the CSRF token of the request's session.
SequentialResponse(d, token) ==
    LET l == lookup(thr[d].method, thr[d].path)
    IN  IF l.pc = "done" THEN l.resp
        ELSE echoHandler(newResponse, [l.ctx EXCEPT !.csrf = token])

\* The session goroutine d's request is entitled to: the one sealed in its
\* cookie, or a new one whose token no other request holds.
OwnSession(d, s) ==
    IF thr[d].cookie.valid
    THEN s = decrypt(thr[d].cookie).s
    ELSE /\ s.Values = EmptyMap
         /\ s.CSRF \in 1..issued
         /\ \A e \in Threads \ {d} :
               /\ thr[e].cookie.csrf # s.CSRF
               /\ thr[e].ctx # 0 => ctxs[thr[e].ctx].csrf # s.CSRF

C15_IndependentDispatch ==
    /\ \A d, e \in Threads :
          (d # e /\ thr[d].ctx # 0 /\ thr[e].ctx # 0) => thr[d].ctx # thr[e].ctx
    /\ \A d \in Threads :
          /\ thr[d].ctx # 0 =>
                /\ ctxs[thr[d].ctx].params = lookup(thr[d].method, thr[d].path).ctx.params
                /\ thr[d].pc \in {"handler", "done"} =>
                      /\ OwnSession(d, ctxs[thr[d].ctx].session)
                      /\ ctxs[thr[d].ctx].csrf = ctxs[thr[d].ctx].session.CSRF
          /\ thr[d].pc = "done" =>
                thr[d].resp = SequentialResponse(d, IF thr[d].ctx # 0
                                                    THEN ctxs[thr[d].ctx].session.CSRF
                                                    ELSE 0)

\* Two requests that capture different parameters and carry different
\* sessions were in their handlers at the same time and both were answered.
C15_Witness ==
    \E d, e \in Threads :
        /\ thr[d].pc = "done" /\ thr[e].pc = "done"
        /\ thr[d].ctx # 0 /\ thr[e].ctx # 0
        /\ thr[d].ctx < thr[e].ctx
        /\ ctxs[thr[d].ctx].params # ctxs[thr[e].ctx].params
        /\ ctxs[thr[d].ctx].csrf # ctxs[thr[e].ctx].csrf
        /\ thr[d].resp.body # thr[e].resp.body
        /\ thr[d].resp.status = 200 /\ thr[e].resp.status = 200

(* C19: a panic raised while ServeHTTP builds the composed handler of a    *)
(* matched request (a Middleware that panics when it is applied to the     *)
(* next handler) is recovered and converted to a response; it does not     *)
(* propagate out of ServeHTTP.                                             *)

\* The request's panic was raised by applyMiddleware: the route matched and
\* no composed handler exists.
PanickedInApply ==
    /\ rec # NoPanic
    /\ node # Nil
    /\ out = <<>>

C19_ApplyPanicRecovered ==
    PanickedInApply =>
        /\ pc # "escaped"
        /\ pc = "done" => (recovered = 1 /\ resp.status >= 400)

(* C20: lookup never backtracks.  When a literal child exists for the      *)
(* request segment the walk commits to it, and if the walk then fails      *)
(* deeper (no child for a later segment, or it ends on a node without      *)
(* handler) the request gets a 404 even when the parameter edge at the     *)
(* shallower level leads to a registered route matching the whole path.    *)

\* Route t matches segs from root by some choice of branches: each segment
\* is the literal of the edge taken or is taken by a parameter edge.
MatchesSomeBranch(root, segs, t) ==
    LET ch == Chain(t)
    IN  /\ nodes[t].handler # NilHandler
        /\ Len(ch) = Len(segs) + 1
        /\ ch[1] = root
        /\ \A i \in 1..Len(segs) :
              \/ ParamChild(ch[i], ch[i + 1])
              \/ /\ segs[i] \in DOMAIN nodes[ch[i]].static
                 /\ nodes[ch[i]].static[segs[i]] = ch[i + 1]

\* At node a the walk of the request commits to a literal child and fails
\* below it, while the parameter edge of a leads to a route that matches.
CommittedAndFailed(a) ==
    LET rs   == ReqSegs
        root == ReqRoot
        k    == Len(Chain(a))
    IN  /\ root # Nil
        /\ k <= Len(rs)
        /\ rs[k] \in DOMAIN nodes[a].static
        /\ nodes[a].param # Nil
        /\ Leads(root, SubSeq(rs, 1, k - 1), a)
        /\ ~\E t \in NodeIds : nodes[t].handler # NilHandler /\ Leads(root, rs, t)
        /\ \E t \in NodeIds :
              /\ MatchesSomeBranch(root, rs, t)
              /\ Chain(t)[k + 1] = nodes[a].param

C20_NoBacktracking ==
    Serving =>
        \A a \in NodeIds :
            CommittedAndFailed(a) =>
                /\ pc = "done"
                /\ resp = NotFound(newResponse)
                /\ ~ctx.made
                /\ out = <<>>
                /\ log = <<>>

\* GET /u/w is answered 404 although /{i}/w is registered: the walk took
\* the literal child u of /u/v and found no child w below it.
C20_Witness ==
    /\ pc = "done"
    /\ ReqSegs = << <<"u">>, <<"w">> >>
    /\ resp = NotFound(newResponse)
    /\ ReqRoot # Nil
    /\ CommittedAndFailed(ReqRoot)
    /\ \E t \in NodeIds : MatchesSomeBranch(ReqRoot, ReqSegs, t)

\* GET /u is answered 404 although /{i} is registered: the walk ended on
\* the node u of /u/v, which has no handler.
C20_WitnessNoHandler ==
    /\ pc = "done"
    /\ ReqSegs = << <<"u">> >>
    /\ resp = NotFound(newResponse)
    /\ ReqRoot # Nil
    /\ CommittedAndFailed(ReqRoot)

(* C21: dispatch and registration are insensitive to slash noise.  A      *)
(* trailing slash, a doubled slash or a dropped leading slash in a request *)
(* path yields the same matched route and the same captured parameters as  *)
(* the canonical path; an empty path or one made only of slashes matches    *)
(* the route registered at "/"; and the same holds for the pattern given   *)
(* at registration.                                                         *)

\* p with every run of slashes reduced to one slash
RECURSIVE squeeze(_)
squeeze(p) ==
    IF Len(p) < 2 THEN p
    ELSE IF p[1] = "/" /\ p[2] = "/" THEN squeeze(Tail(p))
    ELSE <<p[1]>> \o squeeze(Tail(p))

\* The canonical form of p: one leading slash, no doubled slash and no
\* trailing slash unless the path is "/".
Canonical(p) ==
    LET q == squeeze(<<"/">> \o p)
    IN  IF Len(q) > 1 /\ q[Len(q)] = "/" THEN SubSeq(q, 1, Len(q) - 1) ELSE q

OnlySlashes == { <<>>, <<"/", "/">>, <<"/", "/", "/">> }

C21_SlashNoiseIgnored ==
    \* the request being served was matched as its canonical path is
    /\ Serving =>
          LET l == lookup(req.method, Canonical(req.path))
          IN  /\ node = l.node
              /\ ctx = l.ctx
              /\ (pc = "done" /\ ~ctx.made) => resp = l.resp
    \* when no request is being served (registration and the start of
    \* ServeHTTP happen in such states):
    /\ Quiescent =>
          \* every way of writing a request path is matched alike
          /\ \A c \in NoiseRequests : \A v \in Noise(c) :
                /\ Canonical(v) = c
                /\ lookup("GET", v) = lookup("GET", c)
          /\ \A v \in OnlySlashes : lookup("GET", v) = lookup("GET", <<"/">>)
          \* every way of writing a pattern or a prefix registers the same route
          /\ \A r \in 1..Len(routers) : \A c \in NoisePatterns : \A v \in Noise(c) :
                LET a == addResult(r, "GET", v, "H1", <<>>)
                    b == addResult(r, "GET", c, "H1", <<>>)
                IN  /\ a.nodes = b.nodes
                    /\ a.trees = b.trees
                    /\ pathSegments(joinPath(routers[r].prefix, v))
                          = pathSegments(joinPath(Canonical(routers[r].prefix), c))

\* A route registered as a noisy pattern under a noisy prefix was matched
\* by a noisy request path, with the parameter captured.
C21_Witness ==
    /\ pc = "done"
    /\ req.path # Canonical(req.path)
    /\ DispatchedTo(node)
    /\ Len(Chain(node)) = 4
    /\ nodes[node].name = "n"
    /\ HasPrefix(names["n"], <<"/", "/", "u", "/", "/">>)
    /\ Param(ctx, <<"i">>) = <<"x">>
    /\ <<"H1", "run">> \in {log[i] : i \in 1..Len(log)}

(* C22: the chain stored for a route is the registering scope's           *)
(* middleware list as it stands at registration time (inherited ancestor   *)
(* middleware first, then the scope's own, each in Use order) followed by  *)
(* the route's own WithMiddleware entries in option order; at dispatch     *)
(* every scope middleware of the route starts before any of its            *)
(* route-level middleware, and the stored chain is a copy that later Use   *)
(* calls on the scope do not alter.                                        *)

\* the middleware of the WithMiddleware options of opts, in option order
RECURSIVE RouteLevel(_)
RouteLevel(opts) ==
    IF opts = <<>> THEN <<>>
    ELSE (IF Head(opts).kind = "WithMiddleware" THEN Head(opts).mw ELSE <<>>)
         \o RouteLevel(Tail(opts))

\* The node the pattern segs ends on in the heap h, from node n on.
RECURSIVE EndIn(_, _, _, _)
EndIn(h, n, segs, i) ==
    IF n = Nil \/ i > Len(segs) THEN n
    ELSE IF isParamSegment(segs[i]).ok THEN EndIn(h, h[n].param, segs, i + 1)
    ELSE IF segs[i] \in DOMAIN h[n].static THEN EndIn(h, h[n].static[segs[i]], segs, i + 1)
    ELSE Nil

ScopeIds == {"A", "B"}
RouteIds == {"C", "D"}

C22_StoredChain ==
    /\ [][ \* a registration stores the scope's list, then the route's own
           /\ nregs' # nregs =>
                 \A r \in 1..Len(routers), opts \in ChainOpts :
                    add(r, "GET", ChainPath, "H1", opts) =>
                       LET segs == pathSegments(joinPath(routers[r].prefix, ChainPath))
                           t    == EndIn(nodes', trees'["GET"], segs, 1)
                       IN  /\ t # Nil
                           /\ nodes'[t].mw = routers[r].mw \o RouteLevel(opts)
                           /\ \A n \in NodeIds : n # t => nodes'[n].mw = nodes[n].mw
           \* nothing else touches a stored chain
           /\ nregs' = nregs => \A n \in NodeIds : nodes'[n].mw = nodes[n].mw
           \* Use appends to its own scope; a new scope starts with a copy of
           \* its parent's list
           /\ \A t \in 1..Len(routers) : IsPrefix(routers[t].mw, routers'[t].mw)
           /\ Len(routers') > Len(routers) =>
                 routers'[Len(routers')].mw = routers[1].mw
         ]_vars
    \* in a dispatch no route-level middleware starts before a scope one
    /\ [](\A i, j \in 1..Len(log) :
             (i < j /\ log[i][2] = "before" /\ log[j][2] = "before")
                => ~(log[i][1] \in RouteIds /\ log[j][1] \in ScopeIds))

\* A route registered on the grouped scope ran A (inherited), B (the scope's
\* own), then C and D (route-level); the root scope took another A after the
\* scope was grouped, which reached neither the scope nor the route.
C22_Witness ==
    /\ pc = "done"
    /\ Len(routers) = 2
    /\ routers[1].mw = <<"A", "A">>
    /\ routers[2].mw = <<"A", "B">>
    /\ node # Nil
    /\ nodes[node].mw = <<"A", "B", "C", "D">>
    /\ log = << <<"A", "before">>, <<"B", "before">>, <<"C", "before">>,
                <<"D", "before">>, <<"H1", "run">>, <<"D", "after">>,
                <<"C", "after">>, <<"B", "after">>, <<"A", "after">> >>

(* C23: a registration that panics (nil handler, conflicting parameter    *)
(* name, or a route name already bound to a different pattern) changes no  *)
(* router state: the route tree and the name index are exactly as before   *)
(* the call, so every request is dispatched afterwards exactly as before.  *)
C23_FailedRegistrationChangesNothing ==
    [][ (nregs' # nregs /\ regPanic' # "") =>
           /\ trees' = trees
           /\ nodes' = nodes
           /\ names' = names
           /\ \A method \in Methods, path \in RegPaths :
                 lookup(method, path)' = lookup(method, path)
      ]_vars

(* C24: under registration running concurrently with dispatch, a request  *)
(* never runs a route's handler with a middleware chain other than the one *)
(* stored by the same registration as that handler: it never runs a newly  *)
(* registered (or re-registered) handler with an empty or older chain.     *)

\* Router.add has stored its handler on node n and not yet its chain: the
\* node carries the new handler beside the chain of an earlier registration,
\* or beside no chain at all.
HalfStored(n) == reg.pc = "mw" /\ reg.n = n

\* Goroutine d takes the handler and the chain of its node in this step.
TakesHandler(d) == thr[d].pc = "read" /\ thr'[d].pc = "chain"

C24_HandlerWithItsOwnChain ==
    [][ \A d \in Threads : TakesHandler(d) => ~HalfStored(thr[d].n) ]_vars

(* C25: a panic raised inside a registration never leaves the router's    *)
(* exclusive lock held: after any failed registration (conflicting         *)
(* parameter name or duplicate route name), later registrations, URL calls *)
(* and dispatches acquire the lock and proceed without blocking.           *)
C25_PanicReleasesLock ==
    /\ [](reg.pc = "idle" => ~mu.writer)
    /\ (reg.pc = "unlock" /\ regPanic # "") ~> ~mu.writer
    /\ (reg.pc = "want" /\ regPanic # "") ~> (reg.pc = "root")
    /\ (url.pc = "rlock" /\ regPanic # "") ~> url.called
    /\ (thr[LockServer].pc = "rlock" /\ regPanic # "") ~> (thr[LockServer].pc = "root")

\* After a registration failed on a route name, a later registration holds
\* the lock, and a URL call and a dispatch that came after the failure have
\* been through it.
C25_Witness ==
    /\ regPanic = "router: duplicate route name"
    /\ nregs = 2
    /\ reg.pc = "root"
    /\ reg.name = "n"
    /\ mu.writer
    /\ url.called
    /\ url.result # <<>>
    /\ thr[LockServer].pc = "done"
    /\ thr[LockServer].resp.status = 200

(* C26: registering a handler for a method and full pattern that already  *)
(* has one replaces the route: afterwards a matching request runs only the *)
(* newest handler wrapped in only the newest registration's flattened      *)
(* chain, and neither the earlier handler nor any middleware that was only *)
(* in the earlier chain runs.                                              *)

\* what a dispatch of a route with this handler and chain may execute
Executes(h, chain) == {h} \cup {chain[i] : i \in 1..Len(chain)}

C26_ReRegistrationReplaces ==
    /\ [][ nregs' # nregs =>
              \A path \in ApplyPaths, h \in Handlers, opts \in ApplyOpts :
                 LET segs == pathSegments(joinPath(routers[1].prefix, path))
                     t    == IF "GET" \in DOMAIN trees
                             THEN EndIn(nodes, trees["GET"], segs, 1) ELSE Nil
                 IN  ( /\ t # Nil
                       /\ nodes[t].handler # NilHandler
                       /\ add(1, "GET", path, h, opts) )
                     => /\ nodes'[t].handler = h
                        /\ nodes'[t].mw = routers[1].mw \o RouteLevel(opts)
                        /\ \A n \in NodeIds : n # t => nodes'[n] = nodes[n]
         ]_vars
    /\ [](( Serving /\ node # Nil) =>
             \A i \in 1..Len(log) :
                log[i][1] \in Executes(nodes[node].handler, nodes[node].mw))

\* Two registrations went to one route, which carries handler H2 behind the
\* chain A; a request ran exactly A and H2.
C26_Witness ==
    /\ pc = "done"
    /\ nregs = 2
    /\ regPanic = ""
    /\ Cardinality({n \in NodeIds : nodes[n].handler # NilHandler}) = 1
    /\ node # Nil
    /\ nodes[node].handler = "H2"
    /\ nodes[node].mw = <<"A">>
    /\ log = << <<"A", "before">>, <<"H2", "run">>, <<"A", "after">> >>

(* C27: URL is a deterministic function of its arguments: for a fixed     *)
(* name index, two calls with the same name and equal params maps return   *)
(* the same string whatever order the params are substituted in, including *)
(* when a supplied value contains the {key} token of another parameter.    *)
C27_URLDeterministic ==
    \A name \in URLNames, params \in URLParams :
        \A o1, o2 \in RangeOrders(params) :
            URL(name, params, o1) = URL(name, params, o2)

(* C28: reverse routing round-trips.  For a route registered with GET     *)
(* under a name, and a params map that gives every capture of its pattern  *)
(* a non-empty value containing no slash, a GET request to                 *)
(* URL(name, params) is dispatched to that named route's handler with      *)
(* Param(k) equal to params[k] for every capture k.                        *)

\* the capture names of a pattern
Captures(pattern) ==
    {isParamSegment(seg).name :
        seg \in {g \in {pathSegments(pattern)[i] : i \in 1..Len(pathSegments(pattern))} :
                    isParamSegment(g).ok}}

\* params gives every capture of the pattern a non-empty value without slash
CoversCaptures(pattern, params) ==
    \A k \in Captures(pattern) :
        /\ k \in DOMAIN params
        /\ params[k] # <<>>
        /\ ~ContainsAny(params[k], {"/"})

\* the node of the GET route registered under the name, Nil if there is none
NamedRoute(name) ==
    IF name \in DOMAIN names /\ "GET" \in DOMAIN trees
    THEN LET t == EndIn(nodes, trees["GET"], pathSegments(names[name]), 1)
         IN  IF t # Nil /\ nodes[t].handler # NilHandler /\ nodes[t].name = name
             THEN t ELSE Nil
    ELSE Nil

C28_URLRoundTrip ==
    ( /\ Serving
      /\ url.called
      /\ req.method = "GET"
      /\ req.path = url.result
      /\ NamedRoute(url.name) # Nil
      /\ CoversCaptures(names[url.name], url.params)
      /\ \E order \in RangeOrders(url.params) :
            URL(url.name, url.params, order) = url.result )
    => /\ DispatchedTo(NamedRoute(url.name))
       /\ \A k \in Captures(names[url.name]) : Param(ctx, k) = url.params[k]

(* C29: in the view engine, under any interleaving of Render and SetDir   *)
(* calls, once SetDir(d) has returned the cache holds only templates       *)
(* parsed from directory d: a template parsed from an earlier directory is *)
(* never stored into, or served from, the cache of the new directory.      *)
C29_CacheBelongsToDir ==
    /\ [](vmu.writer # Setter =>
             \A name \in DOMAIN vcache : vcache[name].dir = vdir)
    /\ [][ \A g \in Renderers :
              (vthr[g].pc = "read" /\ vthr'[g].pc = "done") => vthr'[g].tpl.dir = vdir
         ]_vars

====
